---- MODULE Spec2Model ----
(***************************************************************************)
(* AIS destination decoder (helper/ais_port_matcher.py, AISPortMatcher),   *)
(* as documented with its code in the AI-Model README.                     *)
(*                                                                         *)
(* A text is a sequence of one-character strings.  The regular expressions *)
(* and string methods of the Python code are computed character by         *)
(* character, the way re / str compute them.                               *)
(***************************************************************************)
EXTENDS Integers, Sequences, FiniteSets, TLC

(***************************************************************************)
(* Characters and Python string primitives                                 *)
(***************************************************************************)
LowerLetters == <<"a","b","c","d","e","f","g","h","i","j","k","l","m",
                  "n","o","p","q","r","s","t","u","v","w","x","y","z">>

UpperLetters == <<"A","B","C","D","E","F","G","H","I","J","K","L","M",
                  "N","O","P","Q","R","S","T","U","V","W","X","Y","Z">>

Digits == {"0","1","2","3","4","5","6","7","8","9"}

IsLower(c) == \E i \in 1..26 : LowerLetters[i] = c

IsAlpha(c) == \E i \in 1..26 : LowerLetters[i] = c \/ UpperLetters[i] = c

\* \w of the re module: letters, digits and the underscore
IsWordChar(c) == IsAlpha(c) \/ c \in Digits \/ c = "_"

\* \s of the re module
IsSpace(c) == c = " "

UpperChar(c) ==
    IF IsLower(c) THEN UpperLetters[CHOOSE i \in 1..26 : LowerLetters[i] = c]
    ELSE c

\* str.upper()
Upper(t) == [i \in 1..Len(t) |-> UpperChar(t[i])]

\* t[i..j] (1-based, inclusive); empty when j < i
Slice(t, i, j) == IF j < i THEN <<>> ELSE SubSeq(t, i, j)

\* pat occurs in t at position i
MatchAt(t, pat, i) ==
    /\ i >= 1
    /\ i + Len(pat) - 1 <= Len(t)
    /\ \A k \in 1..Len(pat) : t[i + k - 1] = pat[k]

\* `pat in t`
Contains(t, pat) == \E i \in 1..(Len(t) + 1) : MatchAt(t, pat, i)

\* str.strip()
RECURSIVE LStrip(_)
LStrip(t) == IF t # <<>> /\ IsSpace(t[1]) THEN LStrip(Tail(t)) ELSE t

RECURSIVE RStrip(_)
RStrip(t) ==
    IF t # <<>> /\ IsSpace(t[Len(t)]) THEN RStrip(Slice(t, 1, Len(t) - 1)) ELSE t

Strip(t) == LStrip(RStrip(t))

\* str.isalpha(): non-empty and all letters
IsAlphaText(t) == t # <<>> /\ \A i \in 1..Len(t) : IsAlpha(t[i])

\* ' '.join(parts)
RECURSIVE JoinSpace(_)
JoinSpace(parts) ==
    IF parts = <<>> THEN <<>>
    ELSE IF Len(parts) = 1 THEN parts[1]
    ELSE parts[1] \o <<" ">> \o JoinSpace(Tail(parts))

\* last part of text.split(sep): the text after the last of the
\* non-overlapping occurrences of sep, scanned from the left
RECURSIVE SplitLast(_, _, _)
SplitLast(t, sep, i) ==
    IF i > Len(t) THEN <<>>
    ELSE IF \E j \in i..Len(t) : MatchAt(t, sep, j)
         THEN LET j == CHOOSE j \in i..Len(t) :
                          /\ MatchAt(t, sep, j)
                          /\ \A k \in i..(j - 1) : ~MatchAt(t, sep, k)
              IN  SplitLast(t, sep, j + Len(sep))
         ELSE Slice(t, i, Len(t))

\* \b<word>\b matches in t at position i (word starts and ends with \w)
WordAt(t, word, i) ==
    /\ MatchAt(t, word, i)
    /\ (i = 1 \/ ~IsWordChar(t[i - 1]))
    /\ (i + Len(word) > Len(t) \/ ~IsWordChar(t[i + Len(word)]))

\* re.sub(r'\b<word>\b', '', t), from position i on
RECURSIVE SubWord(_, _, _)
SubWord(t, word, i) ==
    IF \E j \in i..Len(t) : WordAt(t, word, j)
    THEN LET j == CHOOSE j \in i..Len(t) :
                     /\ WordAt(t, word, j)
                     /\ \A k \in i..(j - 1) : ~WordAt(t, word, k)
         IN  Slice(t, i, j - 1) \o SubWord(t, word, j + Len(word))
    ELSE Slice(t, i, Len(t))

\* last part of re.split(r'\b<word>\b', t, flags=re.IGNORECASE)
RECURSIVE SplitLastWord(_, _, _)
SplitLastWord(t, word, i) ==
    IF i > Len(t) THEN <<>>
    ELSE IF \E j \in i..Len(t) : WordAt(Upper(t), word, j)
         THEN LET j == CHOOSE j \in i..Len(t) :
                          /\ WordAt(Upper(t), word, j)
                          /\ \A k \in i..(j - 1) : ~WordAt(Upper(t), word, k)
              IN  SplitLastWord(t, word, j + Len(word))
         ELSE Slice(t, i, Len(t))

\* re.sub(r'\([^)]*\)', '', t), from position i on
RECURSIVE SubBrackets(_, _)
SubBrackets(t, i) ==
    LET Opens(p) == t[p] = "(" /\ \E q \in (p + 1)..Len(t) : t[q] = ")"
    IN  IF \E p \in i..Len(t) : Opens(p)
        THEN LET p == CHOOSE p \in i..Len(t) :
                         Opens(p) /\ \A h \in i..(p - 1) : ~Opens(h)
                 q == CHOOSE q \in (p + 1)..Len(t) :
                         /\ t[q] = ")"
                         /\ \A k \in (p + 1)..(q - 1) : t[k] # ")"
             IN  Slice(t, i, p - 1) \o SubBrackets(t, q + 1)
        ELSE Slice(t, i, Len(t))

\* re.sub(r'[<cls>]+', ' ', t) for a set cls of characters, from position i on
\* (a character of cls is kept, as the blank, where its run begins)
SubRuns(t, cls, i) ==
    LET kept == SelectSeq([k \in 1..(Len(t) - i + 1) |-> k + i - 1],
                          LAMBDA k : t[k] \notin cls \/ k = 1 \/ t[k - 1] \notin cls)
    IN  [n \in 1..Len(kept) |-> IF t[kept[n]] \in cls THEN " " ELSE t[kept[n]]]

\* re.split(r'[<cls>]+', t): the parts between the runs of cls characters
\* (part n lies between the end of run n - 1 and the start of run n)
SplitRuns(t, cls) ==
    LET places == [k \in 1..Len(t) |-> k]
        starts == SelectSeq(places, LAMBDA k : t[k] \in cls /\ (k = 1 \/ t[k - 1] \notin cls))
        ends   == SelectSeq(places, LAMBDA k : t[k] \in cls /\ (k = Len(t) \/ t[k + 1] \notin cls))
    IN  [n \in 1..(Len(starts) + 1) |->
            Slice(t, IF n = 1 THEN 1 ELSE ends[n - 1] + 1,
                     IF n > Len(starts) THEN Len(t) ELSE starts[n] - 1)]

(***************************************************************************)
(* Stage 1: route extraction                                               *)
(***************************************************************************)
\* arrows = ['<>', '>>', '-->', '=>', '->', '>'], in this order
arrows == << <<"<",">">>, <<">",">">>, <<"-","-",">">>, <<"=",">">>,
             <<"-",">">>, <<">">> >>

TO == <<"T","O">>

\* the first part of the route instead of the last
_extract_origin_from_route(text) ==
    IF \E a \in 1..Len(arrows) : Contains(text, arrows[a])
    THEN LET a == CHOOSE a \in 1..Len(arrows) :
                      /\ Contains(text, arrows[a])
                      /\ \A b \in 1..(a - 1) : ~Contains(text, arrows[b])
             i == CHOOSE i \in 1..Len(text) :
                      /\ MatchAt(text, arrows[a], i)
                      /\ \A k \in 1..(i - 1) : ~MatchAt(text, arrows[a], k)
         IN  Strip(Slice(text, 1, i - 1))
    ELSE IF \E i \in 1..Len(text) : WordAt(Upper(text), TO, i)
         THEN LET i == CHOOSE i \in 1..Len(text) :
                           /\ WordAt(Upper(text), TO, i)
                           /\ \A k \in 1..(i - 1) : ~WordAt(Upper(text), TO, k)
              IN  Strip(Slice(text, 1, i - 1))
         ELSE text

_extract_destination_from_route(text) ==
    IF \E a \in 1..Len(arrows) : Contains(text, arrows[a])
    THEN LET a == CHOOSE a \in 1..Len(arrows) :
                      /\ Contains(text, arrows[a])
                      /\ \A b \in 1..(a - 1) : ~Contains(text, arrows[b])
         IN  Strip(SplitLast(text, arrows[a], 1))
    ELSE IF \E i \in 1..Len(text) : WordAt(Upper(text), TO, i)
         THEN Strip(SplitLastWord(text, TO, 1))
         ELSE text

(***************************************************************************)
(* Stage 2: noise removal                                                  *)
(***************************************************************************)
NOISE_WORDS ==
    << <<"T","B","A">>, <<"A","N","C","H">>,
       <<"A","N","C","H","O","R","I","N","G">>,
       <<"B","U","N","K","E","R","I","N","G">>, <<"O","P","L">>,
       <<"O","P","E","N">>, <<"I","N"," ","O","R","D","E","R">>,
       <<"F","O","R"," ","O","R","D","E","R">>,
       <<"F","O","R"," ","O","R","D","E","R","S">>,
       <<"O","R","D","E","R","S">>, <<"O","R","D","E","R">>,
       <<"U","N","K","N","O","W","N">>, <<"N","/","A">>,
       <<"N","O","N","E">> >>

\* the character class [<>=>|/\\._\-]
Symbols == {"<", ">", "=", "|", "/", "\\", ".", "_", "-"}

\* for noise in noise_words: text = re.sub(rf'\b{noise}\b', '', text)
RECURSIVE SubNoise(_, _)
SubNoise(text, n) ==
    IF text = <<>> \/ n > Len(NOISE_WORDS) THEN text
    ELSE SubNoise(SubWord(text, NOISE_WORDS[n], 1), n + 1)

\* the noise removal without its last line: the blanks are left as they are
_remove_noise_uncollapsed(text) ==
    LET upper    == Upper(text)
        unbrack  == SubBrackets(upper, 1)
        unsymbol == SubRuns(unbrack, Symbols, 1)
    IN  SubNoise(unsymbol, 1)

_remove_noise(text) ==
    LET upper    == Upper(text)
        unbrack  == SubBrackets(upper, 1)
        unsymbol == SubRuns(unbrack, Symbols, 1)
        unnoise  == SubNoise(unsymbol, 1)
    IN  Strip(SubRuns(unnoise, {" "}, 1))

_normalize_text(text) == Strip(Upper(text))

(***************************************************************************)
(* The port database and its indexes                                       *)
(***************************************************************************)
\* a dict: its keys in insertion order and the value of each key
EmptyDict == [keys |-> <<>>, val |-> <<>>]

HasKey(d, k) == \E i \in 1..Len(d.keys) : d.keys[i] = k

Get(d, k) == d.val[CHOOSE i \in 1..Len(d.keys) : d.keys[i] = k]

\* d.setdefault(k, v): the first value of a key is kept
PutIfAbsent(d, k, v) ==
    IF HasKey(d, k) THEN d
    ELSE [keys |-> Append(d.keys, k), val |-> Append(d.val, v)]

\* a list of pairs (k, v) instead of a dict: a key may come twice
PutPair(d, k, v) ==
    [keys |-> Append(d.keys, k), val |-> Append(d.val, v)]

\* d[k] = v
Put(d, k, v) ==
    IF HasKey(d, k)
    THEN [d EXCEPT !.val[CHOOSE i \in 1..Len(d.keys) : d.keys[i] = k] = v]
    ELSE [keys |-> Append(d.keys, k), val |-> Append(d.val, v)]

\* d.setdefault(k, []).append(v)
PutAppend(d, k, v) ==
    IF HasKey(d, k) THEN Put(d, k, Append(Get(d, k), v)) ELSE Put(d, k, <<v>>)

RECURSIVE BuildIndexes(_, _, _)
BuildIndexes(ports, n, ix) ==
    IF n > Len(ports) THEN ix
    ELSE LET port == ports[n]
         IN  BuildIndexes(ports, n + 1,
               [locode_index       |-> Put(ix.locode_index, port.locode, port),
                port_name_index    |-> PutAppend(ix.port_name_index, Upper(port.port), port),
                country_index      |-> PutAppend(ix.country_index, port.countryCode, port),
                port_code_index    |-> PutAppend(ix.port_code_index, port.portCode, port),
                country_name_index |-> Put(ix.country_name_index, Upper(port.country),
                                           port.countryCode)])

EmptyIndexes ==
    [locode_index |-> EmptyDict, port_name_index |-> EmptyDict,
     country_index |-> EmptyDict, port_code_index |-> EmptyDict,
     country_name_index |-> EmptyDict]

\* the loop over the rows starts at the second row
AISPortMatcherFromSecond(ports) == BuildIndexes(ports, 2, EmptyIndexes)

\* AISPortMatcher(path): the indexes built on initialization
AISPortMatcher(ports) ==
    BuildIndexes(ports, 1,
        [locode_index |-> EmptyDict, port_name_index |-> EmptyDict,
         country_index |-> EmptyDict, port_code_index |-> EmptyDict,
         country_name_index |-> EmptyDict])

(***************************************************************************)
(* Stage 4: country extraction                                             *)
(***************************************************************************)
None == <<"<None>">>

\* the character class [,\-./\s]
CountrySeparators == {",", "-", ".", "/", " "}

\* the first token is tried before the last
_extract_country_first(self, text) ==
    LET parts == SplitRuns(text, CountrySeparators)
        last  == parts[Len(parts)]
    IN  IF HasKey(self.country_name_index, Upper(parts[1]))
        THEN <<Upper(parts[1]), JoinSpace(Tail(parts))>>
        ELSE IF HasKey(self.country_name_index, Upper(last))
             THEN <<Upper(last), JoinSpace(Slice(parts, 1, Len(parts) - 1))>>
             ELSE <<None, text>>

_extract_country(self, text) ==
    LET parts == SplitRuns(text, CountrySeparators)
        last  == parts[Len(parts)]
    IN  IF HasKey(self.country_name_index, Upper(last))
        THEN <<Upper(last), JoinSpace(Slice(parts, 1, Len(parts) - 1))>>
        ELSE IF HasKey(self.country_name_index, Upper(parts[1]))
             THEN <<Upper(parts[1]), JoinSpace(Tail(parts))>>
             ELSE <<None, text>>

(***************************************************************************)
(* Stage 5: LOCODE                                                         *)
(***************************************************************************)
\* text.upper().replace(' ', '').replace('-', '')
Compact(text) ==
    SelectSeq(Upper(text), LAMBDA c : c \notin {" ", "-"})

_is_locode(self, text) ==
    LET t == Compact(text)
    IN  /\ Len(t) = 5
        /\ IsAlphaText(Slice(t, 1, 2))
        /\ IsAlphaText(Slice(t, 3, 5))
        /\ HasKey(self.locode_index, t)

(***************************************************************************)
(* Stage 6: fuzzy matching (difflib.SequenceMatcher)                       *)
(***************************************************************************)
\* length of the longest common prefix of a[i..] and b[j..]
RECURSIVE CommonLen(_, _, _, _)
CommonLen(a, i, b, j) ==
    IF i > Len(a) \/ j > Len(b) THEN 0
    ELSE IF a[i] # b[j] THEN 0
    ELSE 1 + CommonLen(a, i + 1, b, j + 1)

\* SequenceMatcher.find_longest_match: the longest matching block, the one
\* starting earliest in a and, among those, earliest in b
find_longest_match(a, b) ==
    LET L == [i \in 1..Len(a), j \in 1..Len(b) |-> CommonLen(a, i, b, j)]
        k == CHOOSE k \in 0..Len(a) :
                 /\ k = 0 \/ \E i \in 1..Len(a), j \in 1..Len(b) : L[i, j] = k
                 /\ \A i \in 1..Len(a), j \in 1..Len(b) : L[i, j] <= k
        i == CHOOSE i \in 1..Len(a) :
                 /\ \E j \in 1..Len(b) : L[i, j] = k
                 /\ \A h \in 1..(i - 1), j \in 1..Len(b) : L[h, j] # k
        j == CHOOSE j \in 1..Len(b) :
                 /\ L[i, j] = k
                 /\ \A h \in 1..(j - 1) : L[i, h] # k
    IN  IF k = 0 THEN <<1, 1, 0>> ELSE <<i, j, k>>

\* SequenceMatcher.get_matching_blocks: total size of the matching blocks
RECURSIVE MatchingSize(_, _)
MatchingSize(a, b) ==
    IF a = <<>> \/ b = <<>> THEN 0
    ELSE LET m == find_longest_match(a, b)
         IN  IF m[3] = 0 THEN 0
             ELSE m[3]
                  + MatchingSize(Slice(a, 1, m[1] - 1), Slice(b, 1, m[2] - 1))
                  + MatchingSize(Slice(a, m[1] + m[3], Len(a)),
                                 Slice(b, m[2] + m[3], Len(b)))

\* a similarity is the fraction n / d
Frac(n, d) == [n |-> n, d |-> d]

Geq(x, y) == x.n * y.d >= y.n * x.d

MaxFrac(x, y) == IF Geq(x, y) THEN x ELSE y

\* SequenceMatcher(None, a, b).ratio(): 2.0 * matches / length, 1.0 if length = 0
ratio(a, b) ==
    IF Len(a) + Len(b) = 0 THEN Frac(1, 1)
    ELSE Frac(2 * MatchingSize(a, b), Len(a) + Len(b))

SUBSTRING_BOOST == Frac(85, 100)

DEFAULT_THRESHOLD == Frac(75, 100)

\* the threshold of an acceptable match instead of the last resort's
MEDIUM_THRESHOLD == Frac(70, 100)

LOW_THRESHOLD == Frac(65, 100)

\* a boost that replaces the ratio instead of raising it
SimilarityReplaced(name, port) ==
    LET name_upper == Upper(name)
        port_name  == Upper(port.port)
        similarity == ratio(name_upper, port_name)
    IN  IF Contains(port_name, name_upper)
        THEN SUBSTRING_BOOST
        ELSE similarity

\* the similarity of name to one port, boosted on a substring match
Similarity(name, port) ==
    LET name_upper == Upper(name)
        port_name  == Upper(port.port)
        similarity == ratio(name_upper, port_name)
    IN  IF Contains(port_name, name_upper)
        THEN MaxFrac(similarity, SUBSTRING_BOOST)
        ELSE similarity

\* the values of a dict, one after the other
RECURSIVE Flatten(_)
Flatten(lists) ==
    IF lists = <<>> THEN <<>> ELSE lists[1] \o Flatten(Tail(lists))

\* the ports to scan: the country's ports, or every port of the name index
search_space(self, country_filter) ==
    IF country_filter = None THEN Flatten(self.port_name_index.val)
    ELSE Get(self.country_index, Get(self.country_name_index, country_filter))

\* a sort that puts the later of two equal scores first
RECURSIVE SortMatchesLaterFirst(_)
SortMatchesLaterFirst(matches) ==
    IF matches = <<>> THEN <<>>
    ELSE LET i == CHOOSE i \in 1..Len(matches) :
                      /\ \A h \in 1..Len(matches) : Geq(matches[i][2], matches[h][2])
                      /\ \A h \in (i + 1)..Len(matches) : ~Geq(matches[h][2], matches[i][2])
         IN  <<matches[i]>>
             \o SortMatchesLaterFirst(Slice(matches, 1, i - 1)
                                      \o Slice(matches, i + 1, Len(matches)))

\* matches.sort(key=lambda x: x[1], reverse=True): stable, best first
RECURSIVE SortMatches(_)
SortMatches(matches) ==
    IF matches = <<>> THEN <<>>
    ELSE LET i == CHOOSE i \in 1..Len(matches) :
                      /\ \A h \in 1..Len(matches) : Geq(matches[i][2], matches[h][2])
                      /\ \A h \in 1..(i - 1) : ~Geq(matches[h][2], matches[i][2])
         IN  <<matches[i]>>
             \o SortMatches(Slice(matches, 1, i - 1) \o Slice(matches, i + 1, Len(matches)))

\* the (port, similarity) pairs that reach the threshold, in scan order
RECURSIVE CollectMatches(_, _, _)
CollectMatches(name, space, threshold) ==
    IF space = <<>> THEN <<>>
    ELSE LET similarity == Similarity(name, space[1])
             rest       == CollectMatches(name, Tail(space), threshold)
         IN  IF Geq(similarity, threshold)
             THEN << <<space[1], similarity>> >> \o rest
             ELSE rest

_fuzzy_match_port_name(self, name, country_filter, threshold) ==
    LET matches == SortMatches(CollectMatches(name, search_space(self, country_filter),
                                              threshold))
    IN  [m \in 1..Len(matches) |-> matches[m][1]]

(***************************************************************************)
(* match_destination: the hierarchical strategy                            *)
(***************************************************************************)
\* a destination as it arrives in the request body: a str or another value
Str(text) == [type |-> "str", value |-> text]

NonStr(type) == [type |-> type, value |-> <<>>]

\* empty and non-string destinations are answered as unmatched
ValidDestination(destination) ==
    destination.type = "str" /\ destination.value # <<>>

\* steps 1 and 2: the route's final leg, then noise removal
Clean(text) == _remove_noise(_extract_destination_from_route(text))

\* the last port of the name's list instead of the first
StageALast(self, cleaned) ==
    LET cleaned_upper == _normalize_text(cleaned)
    IN  IF HasKey(self.port_name_index, cleaned_upper)
        THEN LET named == Get(self.port_name_index, cleaned_upper)
             IN  <<named[Len(named)]>>
        ELSE <<>>

StageA(self, cleaned) ==
    LET cleaned_upper == _normalize_text(cleaned)
    IN  IF HasKey(self.port_name_index, cleaned_upper)
        THEN <<Get(self.port_name_index, cleaned_upper)[1]>>
        ELSE <<>>

StageB(self, cleaned) ==
    IF _is_locode(self, cleaned)
    THEN <<Get(self.locode_index, Compact(cleaned))>>
    ELSE <<>>

StageC(self, cleaned) ==
    LET extracted == _extract_country(self, cleaned)
    IN  IF extracted[1] # None
        THEN _fuzzy_match_port_name(self, extracted[2], extracted[1], LOW_THRESHOLD)
        ELSE <<>>

StageD(self, cleaned) ==
    _fuzzy_match_port_name(self, cleaned, None, DEFAULT_THRESHOLD)

StageE(self, cleaned) ==
    LET code == Compact(cleaned)
    IN  IF Len(code) = 3 /\ IsAlphaText(code) /\ HasKey(self.port_code_index, code)
        THEN <<Get(self.port_code_index, code)[1]>>
        ELSE <<>>

\* the exact LOCODE is tried before the exact port name
OutcomeCodeFirst(self, cleaned) ==
    IF StageB(self, cleaned) # <<>> THEN [stage |-> "B", port |-> StageB(self, cleaned)[1]]
    ELSE IF StageA(self, cleaned) # <<>> THEN [stage |-> "A", port |-> StageA(self, cleaned)[1]]
    ELSE IF StageC(self, cleaned) # <<>> THEN [stage |-> "C", port |-> StageC(self, cleaned)[1]]
    ELSE IF StageD(self, cleaned) # <<>> THEN [stage |-> "D", port |-> StageD(self, cleaned)[1]]
    ELSE IF StageE(self, cleaned) # <<>> THEN [stage |-> "E", port |-> StageE(self, cleaned)[1]]
    ELSE [stage |-> "F"]

\* the stage that answers and the port it answers with
Outcome(self, cleaned) ==
    IF StageA(self, cleaned) # <<>> THEN [stage |-> "A", port |-> StageA(self, cleaned)[1]]
    ELSE IF StageB(self, cleaned) # <<>> THEN [stage |-> "B", port |-> StageB(self, cleaned)[1]]
    ELSE IF StageC(self, cleaned) # <<>> THEN [stage |-> "C", port |-> StageC(self, cleaned)[1]]
    ELSE IF StageD(self, cleaned) # <<>> THEN [stage |-> "D", port |-> StageD(self, cleaned)[1]]
    ELSE IF StageE(self, cleaned) # <<>> THEN [stage |-> "E", port |-> StageE(self, cleaned)[1]]
    ELSE [stage |-> "F"]

\* an unmatched response without the field matched
UnmatchedNoFlag(destination) ==
    [reportedDestination |-> destination]

Unmatched(destination) ==
    [reportedDestination |-> destination, matched |-> FALSE]

\* the response echoes the trimmed, upper-cased destination
_format_response_normalized(port, destination) ==
    [reportedDestination |-> Str(_normalize_text(destination.value)),
     locode  |-> port.locode,
     port    |-> port.port,
     country |-> port.country,
     lat     |-> port.lat,
     lon     |-> port.lon,
     matched |-> TRUE]

_format_response(port, destination) ==
    [reportedDestination |-> destination,
     locode  |-> port.locode,
     port    |-> port.port,
     country |-> port.country,
     lat     |-> port.lat,
     lon     |-> port.lon,
     matched |-> TRUE]

\* the exception a str method raises on a value that is not a str
Raised == [raised |-> "TypeError"]

\* the response to a destination together with the stage that answered it
\* ("F": none)
Answer(self, destination) ==
    IF ~ValidDestination(destination)
    THEN [response |-> Unmatched(destination), stage |-> "F"]
    ELSE IF destination.type # "str" THEN [response |-> Raised, stage |-> "F"]
    ELSE CHOOSE answer \in
            {[response |-> IF outcome.stage = "F" THEN Unmatched(destination)
                           ELSE _format_response(outcome.port, destination),
              stage    |-> outcome.stage] :
                outcome \in {Outcome(self, cleaned) :
                                cleaned \in {Clean(destination.value)}}} : TRUE

match_destination(self, destination) == Answer(self, destination).response

StageOf(self, destination) == Answer(self, destination).stage

(***************************************************************************)
(* The datasets and the destinations the decoder is run on                 *)
(***************************************************************************)
\* rows of locode.json: two ports named Hull, a port whose name is another
\* port's LOCODE, a name with punctuation under the country code TO, and a
\* second row for the LOCODE GBHUL
PortPool ==
    << [locode |-> <<"G","B","H","U","L">>, port |-> <<"H","u","l","l">>,
       country |-> <<"B","r","i","t","a","i","n">>, countryCode |-> <<"G","B">>,
       portCode |-> <<"H","U","L">>, lat |-> 53, lon |-> 0],
       [locode |-> <<"C","A","H","U","L">>, port |-> <<"H","u","l","l">>,
       country |-> <<"C","a","n","a","d","a">>, countryCode |-> <<"C","A">>,
       portCode |-> <<"H","U","L">>, lat |-> 45, lon |-> -75],
       [locode |-> <<"I","T","G","B","H">>, port |-> <<"G","b","h","u","l">>,
       country |-> <<"I","t","a","l","y">>, countryCode |-> <<"I","T">>,
       portCode |-> <<"G","B","H">>, lat |-> 41, lon |-> 12],
       [locode |-> <<"T","O","S","T","L">>, port |-> <<"S","t",".","L","o">>,
       country |-> <<"T","o","n","g","a">>, countryCode |-> <<"T","O">>,
       portCode |-> <<"S","T","L">>, lat |-> -21, lon |-> -175],
       [locode |-> <<"G","B","H","U","L">>, port |-> <<"H","u","m","b","e","r">>,
       country |-> <<"B","r","i","t","a","i","n">>, countryCode |-> <<"G","B">>,
       portCode |-> <<"H","U","L">>, lat |-> 54, lon |-> 1] >>

\* the most rows a dataset holds
MaxPorts == 2

\* the datasets: the sequences of at most MaxPorts different rows of the pool
RECURSIVE SeqsOf(_, _)
SeqsOf(pool, n) ==
    IF n = 0 THEN {<<>>}
    ELSE LET shorter == SeqsOf(pool, n - 1)
         IN  shorter \cup {Append(s, p) : s \in {q \in shorter : Len(q) = n - 1},
                                          p \in pool}

Datasets ==
    {[i \in 1..Len(s) |-> PortPool[s[i]]] :
        s \in {q \in SeqsOf(1..Len(PortPool), MaxPorts) :
                  /\ q # <<>>
                  /\ \A i, j \in 1..Len(q) : i # j => q[i] # q[j]}}

PlainTexts ==
    { <<"G","B","H","U","L">>,
      <<"g","b","h","u","l">>,
      <<"G","B"," ","H","U","L">>,
      <<"G","B","-","H","U","L">>,
      <<"C","A","H","U","L">>,
      <<"C","A"," ","H","U","L">>,
      <<"C","A","-","H","U","L">>,
      <<"I","T","G","B","H">>,
      <<"I","T"," ","G","B","H">>,
      <<"I","T","-","G","B","H">>,
      <<"T","O","S","T","L">>,
      <<"T","O"," ","S","T","L">>,
      <<"T","O","-","S","T","L">>,
      <<"H","u","l","l">>,
      <<"H","U","L","L">>,
      <<"h","u","l","l">>,
      <<"G","b","h","u","l">>,
      <<"S","t",".","L","o">>,
      <<"S","T",".","L","O">>,
      <<"s","t",".","l","o">>,
      <<"S","T"," ","L","O">>,
      <<"H","u","m","b","e","r">>,
      <<"H","U","M","B","E","R">>,
      <<"h","u","m","b","e","r">>,
      <<"H","U","L">>,
      <<"S","T","L">>,
      <<"H","U","L","L","L">>,
      <<"H","U","L","L",","," ","C","A","N","A","D","A">>,
      <<"C","A","N","A","D","A"," ","H","U","L","L">>,
      <<"T","B","A">>,
      <<"N","/","A">>,
      <<"(","T","B","A",")">>,
      <<" ">>,
      <<>>,
      <<"X","Y","Z">>,
      <<"1","2","3","4","5">> }

RouteOrigins ==
    { <<"B","E","Z","E","E">>,
      <<"A","<",">","B">> }

RouteSeparators ==
    { <<"<",">">>,
      <<">",">">>,
      <<"-","-",">">>,
      <<"=",">">>,
      <<"-",">">>,
      <<">">>,
      <<" ","<",">"," ">>,
      <<" ","T","O"," ">> }

RouteLegs ==
    { <<"G","B","H","U","L">>,
      <<"H","u","l","l">>,
      <<"H","U","L","L",","," ","C","A","N","A","D","A">>,
      <<"X","Y","Z">> }

\* a destination of each shape: a bare text, a route "origin separator leg",
\* a text followed by a noise word, and values that are not strings
PlainRequests ==
    {[form |-> "plain", origin |-> <<>>, separator |-> <<>>, leg |-> t,
      noise |-> <<>>, destination |-> Str(t)] : t \in PlainTexts}

RouteRequests ==
    {[form |-> "route", origin |-> x, separator |-> a, leg |-> y,
      noise |-> <<>>, destination |-> Str(x \o a \o y)] :
        x \in RouteOrigins, a \in RouteSeparators, y \in RouteLegs}

NoisyRequests ==
    {[form |-> "noisy", origin |-> <<>>, separator |-> <<>>,
      leg |-> PortPool[p].port, noise |-> NOISE_WORDS[n],
      destination |-> Str(PortPool[p].port \o <<" ">> \o NOISE_WORDS[n])] :
        p \in 1..Len(PortPool), n \in 1..Len(NOISE_WORDS)}

NonStringRequests ==
    {[form |-> "nonstr", origin |-> <<>>, separator |-> <<>>, leg |-> <<>>,
      noise |-> <<>>, destination |-> NonStr(type)] : type \in {"NoneType", "int"}}

Requests == PlainRequests \cup RouteRequests \cup NoisyRequests \cup NonStringRequests

NoRequest ==
    [form |-> "none", origin |-> <<>>, separator |-> <<>>, leg |-> <<>>,
     noise |-> <<>>, destination |-> NonStr("none")]

NoResponse == [none |-> TRUE]

(***************************************************************************)
(* The decoder as a state machine: one matcher, one request at a time      *)
(***************************************************************************)
(***************************************************************************)
(* The Express server: JavaScript values as they arrive in a request       *)
(***************************************************************************)
\* a value of a URL parameter or of a JSON body
JsString(chars) == [t |-> "string", v |-> chars]

JsNumber(n) == [t |-> "number", v |-> <<n>>]

JsBoolean(b) == [t |-> "boolean", v |-> <<b>>]

JsArray(elements) == [t |-> "array", v |-> elements]

JsNull == [t |-> "null", v |-> <<>>]

JsObject == [t |-> "object", v |-> <<>>]

JsUndefined == [t |-> "undefined", v |-> <<>>]

HexDigits == Digits \cup {"a","b","c","d","e","f","A","B","C","D","E","F"}

AllIn(chars, set) == \A i \in 1..Len(chars) : chars[i] \in set

\* the first place of chars that holds a character of the set, or 0
IndexOf(chars, set) ==
    IF \E i \in 1..Len(chars) : chars[i] \in set
    THEN CHOOSE i \in 1..Len(chars) :
             chars[i] \in set /\ \A h \in 1..(i - 1) : chars[h] \notin set
    ELSE 0

\* digits, digits.digits, digits. or .digits
IsDecimalMantissa(chars) ==
    LET dot == IndexOf(chars, {"."})
    IN  IF dot = 0 THEN chars # <<>> /\ AllIn(chars, Digits)
        ELSE /\ AllIn(Slice(chars, 1, dot - 1), Digits)
             /\ AllIn(Slice(chars, dot + 1, Len(chars)), Digits)
             /\ Len(chars) > 1

\* an optional sign and digits
IsExponent(chars) ==
    LET digits == IF chars # <<>> /\ chars[1] \in {"+", "-"} THEN Tail(chars) ELSE chars
    IN  digits # <<>> /\ AllIn(digits, Digits)

\* StrUnsignedDecimalLiteral: Infinity, or a mantissa with an optional exponent
IsUnsignedDecimal(chars) ==
    LET e == IndexOf(chars, {"e", "E"})
    IN  \/ chars = <<"I","n","f","i","n","i","t","y">>
        \/ e = 0 /\ IsDecimalMantissa(chars)
        \/ /\ e > 0
           /\ IsDecimalMantissa(Slice(chars, 1, e - 1))
           /\ IsExponent(Slice(chars, e + 1, Len(chars)))

\* StringToNumber(chars) is a number: blank text is 0, else a decimal
\* literal with an optional sign, or a hexadecimal literal
IsStringNumericLiteral(chars) ==
    LET trimmed == Strip(chars)
    IN  \/ trimmed = <<>>
        \/ IsUnsignedDecimal(trimmed)
        \/ trimmed[1] \in {"+", "-"} /\ IsUnsignedDecimal(Tail(trimmed))
        \/ /\ Len(trimmed) > 2
           /\ trimmed[1] = "0" /\ trimmed[2] \in {"x", "X"}
           /\ AllIn(Slice(trimmed, 3, Len(trimmed)), HexDigits)

\* isNaN(value): Number(value) is NaN
isNaN(value) ==
    CASE value.t = "string"    -> ~IsStringNumericLiteral(value.v)
      [] value.t = "number"    -> FALSE
      [] value.t = "boolean"   -> FALSE
      [] value.t = "null"      -> FALSE
      [] value.t = "array"     ->
            \* String(array): "" for [], the element's text for one element
            IF value.v = <<>> THEN FALSE
            ELSE IF Len(value.v) > 1 THEN TRUE
            ELSE CASE value.v[1].t = "string" -> ~IsStringNumericLiteral(value.v[1].v)
                   [] value.v[1].t \in {"number", "null", "undefined"} -> FALSE
                   [] OTHER -> TRUE
      [] value.t = "object"    -> TRUE
      [] value.t = "undefined" -> TRUE

\* !value
Falsy(value) ==
    CASE value.t = "string"    -> value.v = <<>>
      [] value.t = "number"    -> value.v = <<0>>
      [] value.t = "boolean"   -> value.v = <<FALSE>>
      [] value.t = "null"      -> TRUE
      [] value.t = "undefined" -> TRUE
      [] OTHER                 -> FALSE

\* the dataset file before it is read, and the matcher before it is built
Absent == [file |-> "absent"]

NotStarted == [status |-> "not started"]

\* the request handler at rest, and no response sent yet
NoHttp ==
    [route |-> "none", imo |-> JsUndefined, body |-> JsUndefined, pc |-> "idle",
     rawData |-> JsNull, normalizedData |-> JsNull, fromCache |-> FALSE,
     missing |-> <<>>, cached |-> <<>>, fetched |-> <<>>, failed |-> <<>>,
     effects |-> {}, redisFailed |-> FALSE, wasFresh |-> FALSE]

NoRes == [status |-> 0]

\* fetchWithRetry is not running
NoFetch == [pc |-> "idle"]

VARIABLES
    ports,      \* the rows of locode.json the matcher was built from
    self,       \* the matcher's indexes
    request,    \* the destination of the last request, with its shape
    response,   \* the response to it
    stage,      \* the stage that produced the response
    calls,      \* the calls of match_destination that run concurrently
    dataset,    \* startup: the dataset file, Absent or present with its rows
    loaded,     \* startup: the outcome of loading it
    redis,      \* server: the keys of the Redis cache with their JSON texts
    http,       \* server: the request in progress with the handler's locals
    res,        \* server: the response sent for it
    fresh,      \* server: the keys a single-vessel request stored, still cached
    fetcher,    \* fetchWithRetry: the call in progress with its locals
    mockDatabase, \* mock source: the records loaded from mock-vessels.json
    objects,    \* mock source: the objects handed out to the callers
    chatbot     \* Chatbot component: its state and its requests in flight

decoderVars == <<ports, self, request, response, stage, calls>>

loaderVars == <<dataset, loaded>>

serverVars == <<redis, http, res, fresh>>

fetchVars == <<fetcher>>

mockVars == <<mockDatabase, objects>>

chatVars == <<chatbot>>

\* the variables the decoder's requests leave alone
outsideDecoder == <<loaderVars, serverVars, fetchVars, mockVars, chatVars>>

\* the variables the server's routes leave alone
outsideServer == <<decoderVars, loaderVars, fetchVars, mockVars, chatVars>>

vars == <<decoderVars, loaderVars, serverVars, fetchVars, mockVars, chatVars>>

\* no startup is under way
LoaderOff ==
    /\ dataset = Absent
    /\ loaded = NotStarted

\* the server has no request and an empty cache
ServerOff ==
    /\ redis = EmptyDict
    /\ http = NoHttp
    /\ res = NoRes
    /\ fresh = {}

\* no call of fetchWithRetry is under way
FetchOff == fetcher = NoFetch

\* the mock source is not loaded
MockOff ==
    /\ mockDatabase = <<>>
    /\ objects = <<>>

\* the component as it is mounted: the useState defaults, nothing in flight
NoChat ==
    [isOpen |-> FALSE, messages |-> <<>>, inputMessage |-> <<>>,
     isLoading |-> FALSE, isInitializing |-> FALSE, error |-> FALSE,
     initChatbot |-> 0, sendChatMessage |-> <<>>]

\* the component is never used
ChatOff == chatbot = NoChat

\* the callers that run match_destination at the same time
NumCallers == 2

Callers == 1..NumCallers

IdleCall ==
    [pc |-> "idle", destination |-> NonStr("none"), cleaned |-> <<>>,
     response |-> NoResponse]

Init ==
    /\ MockOff
    /\ ChatOff
    /\ ports \in Datasets
    /\ self = AISPortMatcher(ports)
    /\ request = NoRequest
    /\ response = NoResponse
    /\ stage = "none"
    /\ calls = [c \in Callers |-> IdleCall]
    /\ LoaderOff
    /\ ServerOff
    /\ FetchOff

\* POST /api/destination: matcher.match_destination(destination)
Decode(req) ==
    /\ request = NoRequest
    /\ request' = req
    /\ \E answer \in {Answer(self, req.destination)} :
           /\ response' = answer.response
           /\ stage' = answer.stage
    /\ UNCHANGED <<ports, self, calls, outsideDecoder>>

\* the response is sent; the matcher waits for the next request
Respond ==
    /\ request # NoRequest
    /\ request' = NoRequest
    /\ response' = NoResponse
    /\ stage' = "none"
    /\ UNCHANGED <<ports, self, calls, outsideDecoder>>

Next ==
    \/ \E req \in Requests : Decode(req)
    \/ Respond

Spec == Init /\ [][Next]_vars

(***************************************************************************)
(* Properties of match_destination                                         *)
(***************************************************************************)
\* a request has been decoded and its response not yet sent
Decoded == request # NoRequest

\* a str destination that enters the pipeline
Piped == Decoded /\ ValidDestination(request.destination)

text == request.destination.value

\* the response is a match carrying exactly the fields of this port
SameLocation(resp, port) ==
    /\ resp.matched
    /\ resp.locode = port.locode
    /\ resp.port = port.port
    /\ resp.country = port.country
    /\ resp.lat = port.lat
    /\ resp.lon = port.lon

\* two responses agree on the outcome and on the port
SameMatch(resp, other) ==
    /\ resp.matched = other.matched
    /\ resp.matched => SameLocation(resp, other)

\* the row is the one the LOCODE index keeps: no later row has its LOCODE
KeptRow(i) == \A j \in (i + 1)..Len(ports) : ports[j].locode # ports[i].locode

\* the upper-cased text is the port name of some row
IsPortNameKey(t) == \E j \in 1..Len(ports) : Upper(ports[j].port) = Upper(t)

\* the first row, in dataset order, with this upper-cased port name
FirstNamed(t) ==
    ports[CHOOSE j \in 1..Len(ports) :
              /\ Upper(ports[j].port) = Upper(t)
              /\ \A h \in 1..(j - 1) : Upper(ports[h].port) # Upper(t)]

\* C1: the response comes from the earliest of the stages A (exact port
\* name), B (exact LOCODE), C (fuzzy within the country), D (fuzzy over all
\* ports), E (bare port code) whose condition holds for the cleaned text,
\* with that stage's port; it is unmatched only when no stage's condition holds.
C1_StageOrder ==
    Piped =>
        LET cleaned == Clean(text)
            a == StageA(self, cleaned)
            b == StageB(self, cleaned)
            c == StageC(self, cleaned)
            d == StageD(self, cleaned)
            e == StageE(self, cleaned)
        IN  /\ (stage = "A") <=> (a # <<>>)
            /\ (stage = "B") <=> (a = <<>> /\ b # <<>>)
            /\ (stage = "C") <=> (a = <<>> /\ b = <<>> /\ c # <<>>)
            /\ (stage = "D") <=> (a = <<>> /\ b = <<>> /\ c = <<>> /\ d # <<>>)
            /\ (stage = "E") <=> (a = <<>> /\ b = <<>> /\ c = <<>> /\ d = <<>> /\ e # <<>>)
            /\ (stage = "F") <=> (a = <<>> /\ b = <<>> /\ c = <<>> /\ d = <<>> /\ e = <<>>)
            /\ stage = "A" => SameLocation(response, FirstNamed(cleaned))
            /\ stage = "B" => SameLocation(response, b[1])
            /\ stage = "C" => SameLocation(response, c[1])
            /\ stage = "D" => SameLocation(response, d[1])
            /\ stage = "E" => SameLocation(response, e[1])
            /\ stage = "F" => ~response.matched

\* the cleaned text is a port name and a LOCODE of two different rows, and
\* the response is the row of the port name
C1_Witness ==
    /\ Piped
    /\ stage = "A"
    /\ StageB(self, Clean(text)) # <<>>
    /\ StageB(self, Clean(text))[1].locode # response.locode
    /\ SameLocation(response, FirstNamed(Clean(text)))

C3_Original ==
    (Decoded /\ request.form = "plain") =>
        \A i \in 1..Len(ports) :
            (text = ports[i].locode /\ KeptRow(i)) => SameLocation(response, ports[i])

\* C3: decoding the LOCODE of the row the LOCODE index keeps answers with
\* that row's LOCODE, port, country and coordinates, when the LOCODE is not
\* the upper-cased port name of any row and is left unchanged by the cleaning.
C3_CodeRoundTrip ==
    (Decoded /\ request.form = "plain") =>
        \A i \in 1..Len(ports) :
            (/\ text = ports[i].locode
             /\ KeptRow(i)
             /\ ~IsPortNameKey(text)
             /\ Clean(text) = text)
            => SameLocation(response, ports[i])

\* the LOCODE of the second of two rows with that LOCODE has been decoded
\* and answered with the second row
C3_Witness ==
    /\ Decoded
    /\ request.form = "plain"
    /\ Len(ports) = 2
    /\ ports[1].locode = ports[2].locode
    /\ text = ports[2].locode
    /\ SameLocation(response, ports[2])
    /\ response.port # ports[1].port

\* C4 as stated: decoding the port name of any row, in any letter case,
\* answers with that row through stage A.
C4_Original ==
    (Decoded /\ request.form = "plain") =>
        \A i \in 1..Len(ports) :
            Upper(text) = Upper(ports[i].port)
            => (stage = "A" /\ SameLocation(response, ports[i]))

\* C4: decoding, in any letter case, the port name of a row whose upper-cased
\* name the cleaning leaves unchanged answers through stage A with the first
\* row, in dataset order, that has this upper-cased port name.
C4_NameRoundTrip ==
    (Decoded /\ request.form = "plain") =>
        \A i \in 1..Len(ports) :
            (/\ Upper(text) = Upper(ports[i].port)
             /\ Clean(ports[i].port) = Upper(ports[i].port))
            => (stage = "A" /\ SameLocation(response, FirstNamed(ports[i].port)))

\* the lower-case name shared by two rows has been decoded and answered with
\* the first of them
C4_Witness ==
    /\ Decoded
    /\ request.form = "plain"
    /\ Len(ports) = 2
    /\ Upper(ports[1].port) = Upper(ports[2].port)
    /\ Upper(text) = Upper(ports[2].port)
    /\ text # ports[2].port
    /\ stage = "A"
    /\ SameLocation(response, ports[1])
    /\ response.locode # ports[2].locode

\* the text holds no route separator: no arrow (each holds ">") and no
\* whole word TO
NoSeparator(t) ==
    /\ \A i \in 1..Len(t) : t[i] # ">"
    /\ \A i \in 1..Len(t) : ~WordAt(Upper(t), TO, i)

\* cleaning as the claim C5 describes it: normalize, final leg, normalize
CleanNormalizedFirst(t) ==
    _remove_noise(_extract_destination_from_route(_remove_noise(t)))

\* C5 as stated: with cleaned = normalize(extractFinalLeg(normalize(raw))),
\* a route "X <separator> Y" of two legs (texts that hold no separator),
\* whose leg Y resolves alone, is decoded to the outcome of Y alone.
C5_Original ==
    (Decoded /\ request.form = "route") =>
        \A cleaned \in {CleanNormalizedFirst(text)} :
            \A cleanedLeg \in {CleanNormalizedFirst(request.leg)} :
                LET whole == Outcome(self, cleaned)
                    alone == Outcome(self, cleanedLeg)
                IN  (/\ NoSeparator(request.origin)
                     /\ NoSeparator(request.leg)
                     /\ alone.stage # "F")
                    => whole = alone

\* C5: with cleaned = normalize(extractFinalLeg(raw)), the final leg taken
\* before the separators are replaced, a route "X <separator> Y" whose legs
\* X and Y hold no separator themselves and whose leg Y resolves alone is
\* answered with the stage and the port Y alone is answered with.
C5_RouteCollapsing ==
    (Decoded /\ request.form = "route") =>
        LET alone == Answer(self, Str(request.leg))
        IN  (/\ NoSeparator(request.origin)
             /\ NoSeparator(request.leg)
             /\ alone.response.matched)
            => (stage = alone.stage /\ SameMatch(response, alone.response))

\* a route with the word TO between two legs has been answered with the
\* port of its last leg, which the origin alone does not resolve to
C5_Witness ==
    /\ Decoded
    /\ request.form = "route"
    /\ request.separator = <<" ", "T", "O", " ">>
    /\ NoSeparator(request.origin)
    /\ NoSeparator(request.leg)
    /\ response.matched
    /\ SameMatch(response, match_destination(self, Str(request.leg)))
    /\ ~match_destination(self, Str(request.origin)).matched

\* C6 as stated: a port name followed by a space and a configured noise word
\* is decoded to the outcome of the port name alone.
C6_Original ==
    (Decoded /\ request.form = "noisy"
        /\ \E i \in 1..Len(ports) : ports[i].port = request.leg)
    => SameMatch(response, match_destination(self, Str(request.leg)))

\* C7 as stated: a destination that the cleaning reduces to the empty text
\* is answered matched = false by a matcher with at least one port.
C7_Original ==
    (Piped /\ Clean(text) = <<>> /\ ports # <<>>) => ~response.matched

\* the spellings "CCLLL", "CC LLL" and "CC-LLL" of a LOCODE
Spellings(locode) ==
    << locode,
       Slice(locode, 1, 2) \o <<" ">> \o Slice(locode, 3, 5),
       Slice(locode, 1, 2) \o <<"-">> \o Slice(locode, 3, 5) >>

\* C8 as stated: each of the three spellings of the LOCODE of a row the
\* LOCODE index keeps is answered through stage B with that row, when none
\* of the three cleaned texts is a port name.
C8_Original ==
    (Decoded /\ request.form = "plain") =>
        \A i \in 1..Len(ports) :
            (/\ KeptRow(i)
             /\ \E k \in 1..3 : text = Spellings(ports[i].locode)[k]
             /\ \A k \in 1..3 : ~IsPortNameKey(Clean(Spellings(ports[i].locode)[k])))
            => (stage = "B" /\ SameLocation(response, ports[i]))

\* C9: the response echoes the destination of the request unchanged; an
\* unmatched response has no field but reportedDestination and matched; a
\* matched response carries the LOCODE, port, country, latitude and
\* longitude of one row of the dataset.
C9_ResponseShape ==
    Decoded =>
        /\ response.reportedDestination = request.destination
        /\ ~response.matched
           => DOMAIN response = {"reportedDestination", "matched"}
        /\ response.matched
           => /\ DOMAIN response = {"reportedDestination", "locode", "port",
                                    "country", "lat", "lon", "matched"}
              /\ \E i \in 1..Len(ports) : SameLocation(response, ports[i])

\* a lower-case port name has been matched and is echoed as it was sent
C9_Witness ==
    /\ Decoded
    /\ request.form = "plain"
    /\ response.matched
    /\ text # Clean(text)
    /\ response.reportedDestination = Str(text)

(***************************************************************************)
(* Concurrent callers: every call of match_destination runs its steps one  *)
(* at a time, interleaved with the steps of the other calls, on the one    *)
(* shared matcher                                                          *)
(***************************************************************************)
\* the dataset of the shared matcher: the first rows of the pool
SharedDataset == [i \in 1..MaxPorts |-> PortPool[i]]

ConcurrentTexts ==
    { <<"h","u","l","l">>,
      <<"G","B"," ","H","U","L">>,
      <<"H","U","L">>,
      <<"X","Y","Z">> }

InitConcurrent ==
    /\ MockOff
    /\ ChatOff
    /\ ports = SharedDataset
    /\ self = AISPortMatcher(ports)
    /\ request = NoRequest
    /\ response = NoResponse
    /\ stage = "none"
    /\ calls = [c \in Callers |-> IdleCall]
    /\ LoaderOff
    /\ ServerOff
    /\ FetchOff

Found(call, port) ==
    [call EXCEPT !.pc = "done",
                 !.response = _format_response(port, call.destination)]

NotFound(call) ==
    [call EXCEPT !.pc = "done", !.response = Unmatched(call.destination)]

\* a request arrives: match_destination(destination) is called
Call(c, destination) ==
    /\ calls[c].pc = "idle"
    /\ calls' = [calls EXCEPT ![c] = [IdleCall EXCEPT !.pc = "clean",
                                                      !.destination = destination]]
    /\ UNCHANGED <<ports, self, request, response, stage, outsideDecoder>>

\* steps 1 and 2: route extraction and noise removal
CleanStep(c) ==
    /\ calls[c].pc = "clean"
    /\ \E call \in {calls[c]} :
           calls' = [calls EXCEPT ![c] =
                        IF ~ValidDestination(call.destination) THEN NotFound(call)
                        ELSE [call EXCEPT !.pc = "A",
                                          !.cleaned = Clean(call.destination.value)]]
    /\ UNCHANGED <<ports, self, request, response, stage, outsideDecoder>>

\* a variant that takes the port out of the name index: .pop(0) for [0]
ExactNamePop(c) ==
    /\ calls[c].pc = "A"
    /\ \E hit \in {StageA(self, calls[c].cleaned)} :
           IF hit # <<>>
           THEN /\ calls' = [calls EXCEPT ![c] = Found(@, hit[1])]
                /\ self' = [self EXCEPT !.port_name_index =
                               Put(@, _normalize_text(calls[c].cleaned),
                                   Tail(Get(@, _normalize_text(calls[c].cleaned))))]
           ELSE /\ calls' = [calls EXCEPT ![c].pc = "B"]
                /\ self' = self
    /\ UNCHANGED <<ports, request, response, stage, outsideDecoder>>

\* step 3: exact port name
ExactName(c) ==
    /\ calls[c].pc = "A"
    /\ \E hit \in {StageA(self, calls[c].cleaned)} :
           calls' = [calls EXCEPT ![c] =
                        IF hit # <<>> THEN Found(@, hit[1]) ELSE [@ EXCEPT !.pc = "B"]]
    /\ UNCHANGED <<ports, self, request, response, stage, outsideDecoder>>

\* steps 4 and 5: exact LOCODE
ExactCode(c) ==
    /\ calls[c].pc = "B"
    /\ \E hit \in {StageB(self, calls[c].cleaned)} :
           calls' = [calls EXCEPT ![c] =
                        IF hit # <<>> THEN Found(@, hit[1]) ELSE [@ EXCEPT !.pc = "C"]]
    /\ UNCHANGED <<ports, self, request, response, stage, outsideDecoder>>

\* step 6: fuzzy match within the country
FuzzyCountry(c) ==
    /\ calls[c].pc = "C"
    /\ \E hit \in {StageC(self, calls[c].cleaned)} :
           calls' = [calls EXCEPT ![c] =
                        IF hit # <<>> THEN Found(@, hit[1]) ELSE [@ EXCEPT !.pc = "D"]]
    /\ UNCHANGED <<ports, self, request, response, stage, outsideDecoder>>

\* step 7: fuzzy match globally
FuzzyGlobal(c) ==
    /\ calls[c].pc = "D"
    /\ \E hit \in {StageD(self, calls[c].cleaned)} :
           calls' = [calls EXCEPT ![c] =
                        IF hit # <<>> THEN Found(@, hit[1]) ELSE [@ EXCEPT !.pc = "E"]]
    /\ UNCHANGED <<ports, self, request, response, stage, outsideDecoder>>

\* steps 8 and 9: port code only, else unmatched
PortCode(c) ==
    /\ calls[c].pc = "E"
    /\ \E hit \in {StageE(self, calls[c].cleaned)} :
           calls' = [calls EXCEPT ![c] =
                        IF hit # <<>> THEN Found(@, hit[1]) ELSE NotFound(@)]
    /\ UNCHANGED <<ports, self, request, response, stage, outsideDecoder>>

\* the call returns its response
Return(c) ==
    /\ calls[c].pc = "done"
    /\ calls' = [calls EXCEPT ![c] = IdleCall]
    /\ UNCHANGED <<ports, self, request, response, stage, outsideDecoder>>

NextConcurrent ==
    \E c \in Callers :
        \/ \E t \in ConcurrentTexts : Call(c, Str(t))
        \/ CleanStep(c)
        \/ ExactName(c)
        \/ ExactCode(c)
        \/ FuzzyCountry(c)
        \/ FuzzyGlobal(c)
        \/ PortCode(c)
        \/ Return(c)

SpecConcurrent == InitConcurrent /\ [][NextConcurrent]_vars

\* C10: whatever calls run and however their steps interleave, the indexes
\* of the matcher are the ones built from the dataset on initialization, and
\* every finished call holds the response match_destination gives for its
\* destination when it runs alone on the matcher as built.
C10_ReadOnly ==
    /\ self = AISPortMatcher(ports)
    /\ \A c \in Callers :
           calls[c].pc = "done"
           => calls[c].response
                  = match_destination(AISPortMatcher(ports), calls[c].destination)

\* two calls for the same port name have finished side by side, both with
\* the first port of that name
C10_Witness ==
    /\ calls[1].pc = "done"
    /\ calls[2].pc = "done"
    /\ calls[1].destination = calls[2].destination
    /\ calls[1].response.matched
    /\ calls[2].response = calls[1].response
    /\ self = AISPortMatcher(ports)

(***************************************************************************)
(* Startup: the dataset is read and the indexes are built                  *)
(***************************************************************************)
\* helper/script.py: one row of locode.json, made of one line of the CSV
LocodeRow(country_code, port_code, PortName, CountryName, Latitude, Longitude) ==
    [locode |-> country_code \o port_code, port |-> PortName,
     country |-> CountryName, countryCode |-> country_code,
     portCode |-> port_code, lat |-> Latitude, lon |-> Longitude]

\* a row a field of which was lost
Without(row, field) == [f \in DOMAIN row \ {field} |-> row[f]]

RowFields == {"locode", "port", "country", "countryCode", "portCode", "lat", "lon"}

\* the rows a dataset file may hold: sound ones, two with the same LOCODE,
\* rows with a coordinate out of range and rows that lack a field
RowPool ==
    { LocodeRow(<<"G","B">>, <<"H","U","L">>, <<"H","u","l","l">>,
                <<"B","r","i","t","a","i","n">>, 53, 0),
      LocodeRow(<<"G","B">>, <<"H","U","L">>, <<"H","u","m","b","e","r">>,
                <<"B","r","i","t","a","i","n">>, 54, 1),
      LocodeRow(<<"I","T">>, <<"G","B","H">>, <<"G","b","h","u","l">>,
                <<"I","t","a","l","y">>, 41, 12),
      LocodeRow(<<"C","A">>, <<"H","U","L">>, <<"H","u","l","l">>,
                <<"C","a","n","a","d","a">>, 91, -75),
      LocodeRow(<<"T","O">>, <<"S","T","L">>, <<"S","t",".","L","o">>,
                <<"T","o","n","g","a">>, -21, -181),
      Without(LocodeRow(<<"C","A">>, <<"H","U","L">>, <<"H","u","l","l">>,
                        <<"C","a","n","a","d","a">>, 45, -75), "portCode"),
      Without(LocodeRow(<<"T","O">>, <<"S","T","L">>, <<"S","t",".","L","o">>,
                        <<"T","o","n","g","a">>, -21, -175), "lat") }

\* the dataset files: absent, or at most MaxPorts rows of the pool
DatasetFiles ==
    {Absent} \cup {[file |-> "present", rows |-> rows] : rows \in SeqsOf(RowPool, MaxPorts)}

\* a row with every field and its coordinates in range
WellFormed(row) ==
    /\ RowFields \subseteq DOMAIN row
    /\ row.lat >= -90 /\ row.lat <= 90
    /\ row.lon >= -180 /\ row.lon <= 180

Malformed(row) == ~WellFormed(row)

\* the rows that are kept: malformed rows are skipped with a warning
KeptRows(rows) == SelectSeq(rows, WellFormed)

\* AISPortMatcher(path): an absent file is fatal, else the kept rows are indexed
LoadDataset(file) ==
    IF file = Absent
    THEN [status |-> "failed", error |-> "FileNotFoundError"]
    ELSE [status |-> "ready", ports |-> KeptRows(file.rows),
          self |-> AISPortMatcher(KeptRows(file.rows))]

InitStartup ==
    /\ MockOff
    /\ ChatOff
    /\ dataset \in DatasetFiles
    /\ loaded = NotStarted
    /\ ports = <<>>
    /\ self = AISPortMatcher(ports)
    /\ request = NoRequest
    /\ response = NoResponse
    /\ stage = "none"
    /\ calls = [c \in Callers |-> IdleCall]
    /\ ServerOff
    /\ FetchOff

\* python app.py: the matcher is constructed once
Startup ==
    /\ loaded = NotStarted
    /\ loaded' = LoadDataset(dataset)
    /\ UNCHANGED <<dataset, decoderVars, serverVars, fetchVars, mockVars, chatVars>>

NextStartup == Startup

SpecStartup == InitStartup /\ [][NextStartup]_vars

\* the ports of an index whose values are lists, bucket after bucket
AllOf(index) == Flatten(index.val)

\* the number of places of a list that hold the row
Count(list, row) == Cardinality({i \in 1..Len(list) : list[i] = row})

RowsOf(rows, locode) == SelectSeq(rows, LAMBDA row : row.locode = locode)

\* C12: in the matcher built from any dataset, each LOCODE of a row is a
\* key of locode_index exactly once; the port stored under it has that
\* LOCODE, made of its country code and its port code; and it is, field for
\* field, the first or the last row of the dataset with that LOCODE.
C12_OneRecordPerCode ==
    LET index == self.locode_index
    IN  /\ \A i \in 1..Len(ports) :
               Cardinality({k \in 1..Len(index.keys) :
                               index.keys[k] = ports[i].locode}) = 1
        /\ \A k \in 1..Len(index.keys) :
               LET port == index.val[k]
                   rows == RowsOf(ports, index.keys[k])
               IN  /\ port.locode = index.keys[k]
                   /\ port.locode = port.countryCode \o port.portCode
                   /\ rows # <<>>
                   /\ port \in {rows[1], rows[Len(rows)]}

\* the matcher was built from two different rows with the same LOCODE and
\* the index holds the later one, which has answered a request
C12_Witness ==
    /\ Len(ports) = 2
    /\ ports[1].locode = ports[2].locode
    /\ ports[1] # ports[2]
    /\ self.locode_index.val = <<ports[2]>>
    /\ Decoded
    /\ stage = "B"
    /\ SameLocation(response, ports[2])

(***************************************************************************)
(* The Express server: normalizer.js                                       *)
(***************************************************************************)
LowerChar(c) ==
    IF \E i \in 1..26 : UpperLetters[i] = c
    THEN LowerLetters[CHOOSE i \in 1..26 : UpperLetters[i] = c]
    ELSE c

\* str.toLowerCase()
Lower(t) == [i \in 1..Len(t) |-> LowerChar(t[i])]

\* str.charAt(0).toUpperCase() + str.slice(1).toLowerCase()
normalizeName(str) ==
    IF str = <<>> THEN <<>>
    ELSE <<UpperChar(str[1])>> \o Lower(Tail(str))

tankerKeywords ==
    { <<"t","a","n","k","e","r">>, <<"o","i","l">>, <<"c","r","u","d","e">>,
      <<"c","h","e","m","i","c","a","l">>, <<"a","s","p","h","a","l","t">>,
      <<"a","c","i","d">>, <<"m","o","l","a","s","s","e","s">>,
      <<"p","r","o","d","u","c","t">>, <<"l","n","g">>, <<"l","p","g">>,
      <<"g","a","s">> }

tugKeywords ==
    { <<"t","u","g">>, <<"p","u","s","h","e","r">>, <<"t","r","a","c","t","o","r">>,
      <<"c","a","t","a","m","a","r","a","n">>, <<"y","a","t","c","h">> }

mvKeywords ==
    { <<"c","a","r","g","o">>, <<"b","u","l","k">>,
      <<"c","o","n","t","a","i","n","e","r">>, <<"r","e","e","f","e","r">>,
      <<"v","e","h","i","c","l","e">>, <<"c","r","u","i","s","e">>,
      <<"l","i","v","e","s","t","o","c","k">>,
      <<"p","a","s","s","e","n","g","e","r">>, <<"r","o","/","r","o">>,
      <<"t","r","a","i","n","i","n","g">>, <<"g","e","n","e","r","a","l">> }

normalizeShipType(rawType) ==
    IF rawType = <<>> THEN <<"o","t","h","e","r","s">>
    ELSE LET type == Lower(rawType)
         IN  IF \E kw \in tankerKeywords : Contains(type, kw) THEN <<"m","t">>
             ELSE IF \E kw \in tugKeywords : Contains(type, kw) THEN <<"t","u","g">>
             ELSE IF \E kw \in mvKeywords : Contains(type, kw) THEN <<"m","v">>
             ELSE <<"o","t","h","e","r","s">>

Unknown == <<"U","n","k","n","o","w","n">>

\* the matcher of the Flask service behind DESTINATION_DECODER_API
FlaskMatcher == AISPortMatcher(SharedDataset)

\* the promise of normalizeDestination is rejected: `return response.json()`
\* hands out the promise of the parse, which the catch does not cover
Rejection == [rejected |-> "SyntaxError"]

IsRejection(destData) == "rejected" \in DOMAIN destData

\* what normalizeDestination(rawDest) may return: the guards' answers, the
\* decoder's response to the trimmed, upper-cased text, the answer of the
\* catch to a failed call or a status that is not ok, or the rejection by
\* an ok response whose body is no JSON
normalizeDestination(rawDest) ==
    IF rawDest = <<>>
    THEN {[matched |-> FALSE, reportedDestination |-> JsString(Unknown),
           error |-> "Invalid destination format"]}
    ELSE LET dest == Upper(Strip(rawDest))
         IN  IF dest = <<>>
             THEN {[matched |-> FALSE, reportedDestination |-> JsString(Unknown),
                    error |-> "Empty destination"]}
             ELSE {[matched |-> FALSE, reportedDestination |-> JsUndefined,
                    error |-> "Normalization failed"],
                   Rejection}
                  \cup
                  {IF reply.matched
                   THEN [matched |-> TRUE, port |-> reply.port,
                         country |-> reply.country, lat |-> reply.lat,
                         lon |-> reply.lon,
                         reportedDestination |-> JsString(reply.reportedDestination.value)]
                   ELSE [matched |-> FALSE,
                         reportedDestination |-> JsString(reply.reportedDestination.value)] :
                       reply \in {match_destination(FlaskMatcher, Str(dest))}}

\* normalizeData(rawData), given what normalizeDestination returned
normalizeData(rawData, destData) ==
    [imo |-> rawData.imo,
     name |-> normalizeName(rawData.name),
     type |-> normalizeShipType(rawData.type),
     latitude |-> rawData.latitude,
     ais_destination |->
         IF destData.matched
         THEN [t |-> "object",
               v |-> [destination |-> destData.port \o <<",", " ">> \o destData.country,
                      port |-> destData.port, country |-> destData.country,
                      lat |-> destData.lat, lon |-> destData.lon]]
         ELSE JsString(Unknown),
     reportedDestination |-> destData.reportedDestination]

(***************************************************************************)
(* The Express server: the cache service and the vessel data source        *)
(***************************************************************************)
DigitChars == <<"0","1","2","3","4","5","6","7","8","9">>

\* String(n) of a natural number
RECURSIVE NumberToString(_)
NumberToString(n) ==
    IF n < 10 THEN <<DigitChars[n + 1]>>
    ELSE NumberToString(n \div 10) \o <<DigitChars[(n % 10) + 1]>>

\* `${value}`
TemplateString(value) ==
    CASE value.t = "string"    -> value.v
      [] value.t = "number"    -> NumberToString(value.v[1])
      [] value.t = "null"      -> <<"n","u","l","l">>
      [] value.t = "undefined" -> <<"u","n","d","e","f","i","n","e","d">>
      [] value.t = "boolean"   ->
            IF value.v[1] THEN <<"t","r","u","e">> ELSE <<"f","a","l","s","e">>
      [] value.t = "array"     -> IF value.v = <<>> THEN <<>> ELSE <<"[","]">>
      [] value.t = "object"    -> <<"[","o","b","j","e","c","t","]">>

\* `vessel:${imo}`
KeyOf(imo) == <<"v","e","s","s","e","l",":">> \o TemplateString(imo)

\* JSON.stringify(data): a property that is undefined is left out
JSON_stringify(data) ==
    [json |-> IF /\ "reportedDestination" \in DOMAIN data
                 /\ data.reportedDestination = JsUndefined
              THEN Without(data, "reportedDestination")
              ELSE data]

JSON_parse(cachedData) == cachedData.json

\* redisClient.del(key)
Del(d, k) ==
    IF ~HasKey(d, k) THEN d
    ELSE LET i == CHOOSE i \in 1..Len(d.keys) : d.keys[i] = k
         IN  [keys |-> Slice(d.keys, 1, i - 1) \o Slice(d.keys, i + 1, Len(d.keys)),
              val  |-> Slice(d.val, 1, i - 1) \o Slice(d.val, i + 1, Len(d.val))]

\* cacheService.getVessel(imo) without its catch: the error gets out
getVesselUncaught(store, imo, fails) ==
    IF fails THEN [error |-> "Redis GET error"]
    ELSE IF HasKey(store, KeyOf(imo)) THEN JSON_parse(Get(store, KeyOf(imo)))
    ELSE JsNull

\* cacheService.getVessel(imo): the cached data, or null on a miss and when
\* the Redis call fails
getVessel(store, imo, fails) ==
    IF fails THEN JsNull
    ELSE IF HasKey(store, KeyOf(imo)) THEN JSON_parse(Get(store, KeyOf(imo)))
    ELSE JsNull

\* cacheService.setVessel(imo, data) ignores every update
setVesselDropped(store, imo, data, fails) == store

\* cacheService.setVessel(imo, data): the store afterwards
setVessel(store, imo, data, fails) ==
    IF fails THEN store
    ELSE Put(store, KeyOf(imo), JSON_stringify(data))

\* the vessel the AIS API knows, and where it may be
KnownImo == 91

Positions == {10, 20}

VesselFeed ==
    {[imo |-> KnownImo, name |-> <<"e","V","E","R">>,
      type |-> <<"O","i","l"," ","T","a","n","k","e","r">>,
      ais_destination |-> <<"h","u","l","l"," ">>, latitude |-> lat] :
        lat \in Positions}

\* getFullData(imo): the data of the vessel, "No data", or the error of a
\* fetch that failed after its retries
getFullData(imo) ==
    {[imo |-> imo, error |-> "HTTP error! status: 503"]}
    \cup (IF TemplateString(imo) = NumberToString(KnownImo)
          THEN VesselFeed
          ELSE {[imo |-> imo, error |-> "No data"]})

(***************************************************************************)
(* The Express server: GET /api/vessel/:imo with caching                   *)
(***************************************************************************)
\* the :imo parameters of the requests
ImoParams ==
    { JsString(<<"9","1">>), JsString(<<"9","2">>),
      JsString(<<"i","n","v","a","l","i","d">>), JsString(<<"9","1","a">>),
      JsString(<<" ">>), JsString(<<"1","e","3">>) }

\* app.get("/api/vessel/:imo"): a request arrives
GetVessel(imo) ==
    /\ http = NoHttp
    /\ http' = [NoHttp EXCEPT !.route = "single", !.imo = imo, !.pc = "validate"]
    /\ res' = NoRes
    /\ UNCHANGED <<redis, fresh, outsideServer>>

\* if (!imo || isNaN(imo)) return res.status(400)
ValidateImo ==
    /\ http.route = "single"
    /\ http.pc = "validate"
    /\ IF Falsy(http.imo) \/ isNaN(http.imo)
       THEN /\ res' = [status |-> 400, success |-> FALSE,
                       error |-> "Invalid IMO number provided"]
            /\ http' = [http EXCEPT !.pc = "done"]
       ELSE /\ res' = res
            /\ http' = [http EXCEPT !.pc = "cache"]
    /\ UNCHANGED <<redis, fresh, outsideServer>>

\* let normalizedData = await cacheService.getVessel(imo)
CheckCache ==
    /\ http.route = "single"
    /\ http.pc = "cache"
    /\ \E fails \in BOOLEAN :
         \E data \in {getVessel(redis, http.imo, fails)} :
           http' = [http EXCEPT
                      !.effects = @ \cup {"cacheService.getVessel"},
                      !.redisFailed = @ \/ fails,
                      !.wasFresh = KeyOf(http.imo) \in fresh,
                      !.normalizedData = data,
                      !.fromCache = (data # JsNull),
                      !.pc = IF data # JsNull THEN "respond" ELSE "fetch"]
    /\ UNCHANGED <<redis, res, fresh, outsideServer>>

\* const rawData = await getFullData(imo); if (rawData.error) return 404
FetchVessel ==
    /\ http.route = "single"
    /\ http.pc = "fetch"
    /\ \E rawData \in getFullData(http.imo) :
         IF "error" \in DOMAIN rawData
         THEN /\ res' = [status |-> 404, success |-> FALSE,
                         error |-> rawData.error, imo |-> http.imo]
              /\ http' = [http EXCEPT !.effects = @ \cup {"getFullData"},
                                      !.pc = "done"]
         ELSE /\ res' = res
              /\ http' = [http EXCEPT !.effects = @ \cup {"getFullData"},
                                      !.rawData = rawData,
                                      !.pc = "normalize"]
    /\ UNCHANGED <<redis, fresh, outsideServer>>

\* await cacheService.setVessel(imo, normalizedData)
StoreVessel ==
    /\ http.route = "single"
    /\ http.pc = "store"
    /\ \E fails \in BOOLEAN :
         /\ redis' = setVessel(redis, http.imo, http.normalizedData, fails)
         /\ fresh' = IF fails THEN fresh ELSE fresh \cup {KeyOf(http.imo)}
         /\ http' = [http EXCEPT !.effects = @ \cup {"cacheService.setVessel"},
                                 !.redisFailed = @ \/ fails,
                                 !.pc = "respond"]
    /\ UNCHANGED <<res, outsideServer>>

\* res.json({success: true, vessel: normalizedData, cached: fromCache})
SendVessel ==
    /\ http.route = "single"
    /\ http.pc = "respond"
    /\ res' = [status |-> 200, success |-> TRUE, vessel |-> http.normalizedData,
               cached |-> http.fromCache]
    /\ http' = [http EXCEPT !.pc = "done"]
    /\ UNCHANGED <<redis, fresh, outsideServer>>

\* the response has gone out; the server waits for the next request
Finish ==
    /\ http.pc = "done"
    /\ http' = NoHttp
    /\ res' = NoRes
    /\ UNCHANGED <<redis, fresh, outsideServer>>

\* a key leaves the cache: its 7 days are over, or
\* DELETE /api/cache/vessel/:imo was served
Expire ==
    /\ \E k \in 1..Len(redis.keys) :
         /\ redis' = Del(redis, redis.keys[k])
         /\ fresh' = fresh \ {redis.keys[k]}
    /\ UNCHANGED <<http, res, outsideServer>>

(***************************************************************************)
(* The Express server: POST /api/vessels/batch with caching                *)
(***************************************************************************)
\* the most entries of an imos array
MaxBatch == 2

\* the entries of the imos arrays
ImoEntries ==
    { JsNumber(91), JsNumber(92), JsString(<<"a","b","c">>), JsNull }

\* the imos of the request bodies: no such field, not an array, an empty
\* array, arrays of at most MaxBatch entries
BatchBodies ==
    {JsUndefined, JsString(<<"9","1">>), JsNumber(91), JsObject}
    \cup {JsArray(entries) : entries \in SeqsOf(ImoEntries, MaxBatch)}

\* the sequences that take their i-th element from the i-th set
RECURSIVE Choices(_)
Choices(sets) ==
    IF sets = <<>> THEN {<<>>}
    ELSE {<<first>> \o rest : first \in sets[1], rest \in Choices(Tail(sets))}

\* getVesselData(imo): the key fields of the data, or the error
getVesselData(imo) ==
    {IF "error" \in DOMAIN data
     THEN [imo |-> imo, error |-> data.error]
     ELSE [imo |-> data.imo, name |-> data.name, type |-> data.type,
           ais_destination |-> data.ais_destination, latitude |-> data.latitude] :
        data \in getFullData(imo)}

\* app.post("/api/vessels/batch"): a request arrives
PostBatch(imos) ==
    /\ http = NoHttp
    /\ http' = [NoHttp EXCEPT !.route = "batch", !.body = imos, !.pc = "validate"]
    /\ res' = NoRes
    /\ UNCHANGED <<redis, fresh, outsideServer>>

\* the two checks of the body, each answered with status 400
ValidateBatch ==
    /\ http.route = "batch"
    /\ http.pc = "validate"
    /\ \E imos \in {http.body} :
         IF Falsy(imos) \/ imos.t # "array" \/ imos.v = <<>>
         THEN /\ res' = [status |-> 400, success |-> FALSE,
                         error |-> "Invalid request"]
              /\ http' = [http EXCEPT !.pc = "done"]
         ELSE IF SelectSeq(imos.v, isNaN) # <<>>
         THEN /\ res' = [status |-> 400, success |-> FALSE,
                         error |-> "Invalid IMO numbers found",
                         invalid |-> SelectSeq(imos.v, isNaN)]
              /\ http' = [http EXCEPT !.pc = "done"]
         ELSE /\ res' = res
              /\ http' = [http EXCEPT !.pc = "cache"]
    /\ UNCHANGED <<redis, fresh, outsideServer>>

\* cacheService.getBatch(imos): results.cached, keyed by imo, and
\* results.missing; failing holds the places whose Redis call fails
RECURSIVE getBatch(_, _, _, _, _)
getBatch(store, imos, index, failing, results) ==
    IF index > Len(imos) THEN results
    ELSE LET data == getVessel(store, imos[index], index \in failing)
         IN  getBatch(store, imos, index + 1, failing,
                 IF data # JsNull
                 THEN [results EXCEPT !.cached =
                          Put(@, TemplateString(imos[index]), data)]
                 ELSE [results EXCEPT !.missing = Append(@, imos[index])])

\* const cacheResults = await cacheService.getBatch(imos)
CheckCacheBatch ==
    /\ http.route = "batch"
    /\ http.pc = "cache"
    /\ \E failing \in SUBSET (1..Len(http.body.v)) :
         \E cacheResults \in {getBatch(redis, http.body.v, 1, failing,
                                       [cached |-> EmptyDict, missing |-> <<>>])} :
           http' = [http EXCEPT
                      !.effects = @ \cup {"cacheService.getBatch"},
                      !.redisFailed = @ \/ (failing # {}),
                      !.cached = cacheResults.cached.val,
                      !.missing = cacheResults.missing,
                      !.pc = IF cacheResults.missing # <<>> THEN "fetch" ELSE "respond"]
    /\ UNCHANGED <<redis, res, fresh, outsideServer>>

\* const rawBatchData = await getBatchData(missingImos)
FetchBatch ==
    /\ http.route = "batch"
    /\ http.pc = "fetch"
    /\ \E rawBatchData \in
            Choices([i \in 1..Len(http.missing) |-> getVesselData(http.missing[i])]) :
         http' = [http EXCEPT !.effects = @ \cup {"getBatchData"},
                              !.rawData = rawBatchData,
                              !.pc = "normalize"]
    /\ UNCHANGED <<redis, res, fresh, outsideServer>>

\* what normalizing one fetched vessel may give: the vessel, or the
\* rejection that normalizeData passes on from normalizeDestination
NormalizedOf(rawData) ==
    IF "error" \in DOMAIN rawData THEN {rawData}
    ELSE {IF IsRejection(destData) THEN destData
          ELSE normalizeData(rawData, destData) :
             destData \in normalizeDestination(rawData.ais_destination)}

\* res.status(500).json({success: false, error: "Internal server error", ...})
InternalServerError(error) ==
    [status |-> 500, success |-> FALSE, error |-> "Internal server error",
     details |-> error.rejected]

HasError(vessel) == "error" \in DOMAIN vessel

\* a filter that lets every vessel through
HasAnything(vessel) == TRUE

HasNoError(vessel) == "error" \notin DOMAIN vessel

\* normalizeDestination sends the destination to the decoder
CallsDecoder(rawDest) == rawDest # <<>> /\ Upper(Strip(rawDest)) # <<>>

\* the normalizing of both routes. GET /api/vessel/:imo:
\* normalizedData = await normalizeData(rawData). POST /api/vessels/batch:
\* normalizedBatchData, then successfulFetched and failedFetched. A
\* rejection ends in the catch of the route
Normalize ==
    /\ http.pc = "normalize"
    /\ \E fetched \in {IF http.route = "single" THEN <<http.rawData>>
                      ELSE http.rawData} :
         \E normalized \in
              Choices([i \in 1..Len(fetched) |-> NormalizedOf(fetched[i])]) :
           IF \E i \in 1..Len(normalized) : IsRejection(normalized[i])
           THEN /\ res' = InternalServerError(Rejection)
                /\ http' = [http EXCEPT
                              !.effects = @ \cup {"normalizeData",
                                                  "DESTINATION_DECODER_API"},
                              !.pc = "done"]
           ELSE
           /\ res' = res
           /\ http' =
             IF http.route = "single"
             THEN [http EXCEPT
                     !.effects = @ \cup {"normalizeData"}
                                   \cup (IF CallsDecoder(http.rawData.ais_destination)
                                         THEN {"DESTINATION_DECODER_API"} ELSE {}),
                     !.normalizedData = normalized[1],
                     !.pc = "store"]
             ELSE [http EXCEPT
                     !.effects = @ \cup (IF SelectSeq(fetched, HasNoError) # <<>>
                                         THEN {"normalizeData"} ELSE {}),
                     !.fetched = SelectSeq(normalized, HasNoError),
                     !.failed = SelectSeq(normalized, HasError),
                     !.pc = IF SelectSeq(normalized, HasNoError) # <<>>
                            THEN "store" ELSE "respond"]
    /\ UNCHANGED <<redis, fresh, outsideServer>>

\* cacheService.setBatch(vessels): the store afterwards
RECURSIVE setBatch(_, _, _, _)
setBatch(store, vessels, index, failing) ==
    IF index > Len(vessels) THEN store
    ELSE LET vessel == vessels[index]
             imo    == IF HasError(vessel) THEN vessel.imo ELSE JsNumber(vessel.imo)
         IN  setBatch(setVessel(store, imo, vessel, index \in failing),
                      vessels, index + 1, failing)

\* await cacheService.setBatch(successfulFetched)
StoreBatch ==
    /\ http.route = "batch"
    /\ http.pc = "store"
    /\ \E failing \in SUBSET (1..Len(http.fetched)) :
         /\ redis' = setBatch(redis, http.fetched, 1, failing)
         /\ http' = [http EXCEPT !.effects = @ \cup {"cacheService.setBatch"},
                                 !.redisFailed = @ \/ (failing # {}),
                                 !.pc = "respond"]
    /\ UNCHANGED <<res, fresh, outsideServer>>

\* res.json({success: true, totalRequested: ..., vessels: ..., failed: ...})
SendBatch ==
    /\ http.route = "batch"
    /\ http.pc = "respond"
    /\ \E body \in {[status |-> 200, success |-> TRUE,
                      totalRequested |-> Len(http.body.v),
                      totalSuccess |-> Len(http.cached) + Len(http.fetched),
                      totalFailed |-> Len(http.failed),
                      cachedCount |-> Len(http.cached),
                      fetchedCount |-> Len(http.fetched),
                      vessels |-> http.cached \o http.fetched]} :
         res' = IF http.failed # <<>>
                THEN [field \in DOMAIN body \cup {"failed"} |->
                         IF field = "failed" THEN http.failed ELSE body[field]]
                ELSE body
    /\ http' = [http EXCEPT !.pc = "done"]
    /\ UNCHANGED <<redis, fresh, outsideServer>>

InitServer ==
    /\ MockOff
    /\ ChatOff
    /\ ports = SharedDataset
    /\ self = AISPortMatcher(ports)
    /\ request = NoRequest
    /\ response = NoResponse
    /\ stage = "none"
    /\ calls = [c \in Callers |-> IdleCall]
    /\ LoaderOff
    /\ ServerOff
    /\ FetchOff

NextServer ==
    \/ \E imo \in ImoParams : GetVessel(imo)
    \/ ValidateImo
    \/ CheckCache
    \/ FetchVessel
    \/ StoreVessel
    \/ SendVessel
    \/ \E imos \in BatchBodies : PostBatch(imos)
    \/ ValidateBatch
    \/ CheckCacheBatch
    \/ FetchBatch
    \/ Normalize
    \/ StoreBatch
    \/ SendBatch
    \/ Finish
    \/ Expire

SpecServer == InitServer /\ [][NextServer]_vars

\* the text denotes a number: it is not blank and is a numeric literal
DenotesNumber(chars) ==
    /\ Strip(chars) # <<>>
    /\ IsStringNumericLiteral(chars)

\* an entry of an imos array that is a number or the text of one
NumericEntry(entry) ==
    \/ entry.t = "number"
    \/ entry.t = "string" /\ DenotesNumber(entry.v)

IsNonNumericEntry(entry) == ~NumericEntry(entry)

\* C13 (as stated): a GET /api/vessel/:imo whose IMO is not a number is
\* answered with status 400 and success=false, and the handler has read no
\* cache, fetched no vessel and called no decoder.
C13_Original ==
    (http.route = "single" /\ http.pc = "done" /\ ~DenotesNumber(http.imo.v))
        => (res.status = 400 /\ res.success = FALSE /\ http.effects = {})

\* C14 (as stated): a POST /api/vessels/batch whose body has no imos field, a
\* non-array imos, an empty array or an array with a non-numeric entry is
\* answered with status 400 and success=false before any cache read, fetch
\* or normalization.
C14_Original ==
    (/\ http.route = "batch"
     /\ http.pc = "done"
     /\ \/ http.body.t # "array"
        \/ http.body.v = <<>>
        \/ SelectSeq(http.body.v, IsNonNumericEntry) # <<>>)
        => (res.status = 400 /\ res.success = FALSE /\ http.effects = {})

\* what the server sends for the vessel when it has no cache to ask
FetchedVessels(imo) ==
    {vessel \in UNION {NormalizedOf(rawData) :
                          rawData \in {data \in getFullData(imo) : HasNoError(data)}} :
        ~IsRejection(vessel)}

\* the errors the vessel source may give for the vessel
FetchErrors(imo) ==
    {data \in getFullData(imo) : HasError(data)}

\* what the cache may hold for the vessel
CachedVessels(imo) ==
    {JSON_parse(JSON_stringify(vessel)) : vessel \in FetchedVessels(imo)}

\* the entry of a batch is answered with the data or the error of its vessel
Answered(imo) ==
    \/ \E i \in 1..Len(res.vessels) :
          res.vessels[i] \in FetchedVessels(imo) \cup CachedVessels(imo)
    \/ /\ "failed" \in DOMAIN res
       /\ \E i \in 1..Len(res.failed) : res.failed[i] \in FetchErrors(imo)

\* C15: a request during which a Redis call failed is still answered as a
\* server without a cache answers it: a single request with the fetched and
\* normalized vessel (cached=false) or the 404 of the vessel source, a batch
\* request with status 200 and, for every entry, its vessel or its error;
\* or, with or without a cache, the 500 of a rejected decoder call.
C15_GracefulDegradation ==
    (http.pc = "done" /\ http.redisFailed) =>
        \/ /\ res = InternalServerError(Rejection)
           /\ "DESTINATION_DECODER_API" \in http.effects
        \/ /\ http.route = "single" =>
                \/ /\ res.status = 200
                   /\ res.success
                   /\ res.cached = FALSE
                   /\ res.vessel \in FetchedVessels(http.imo)
                \/ /\ res.status = 404
                   /\ [imo |-> http.imo, error |-> res.error] \in FetchErrors(http.imo)
           /\ http.route = "batch" =>
                /\ res.status = 200
                /\ res.success
                /\ \A i \in 1..Len(http.body.v) : Answered(http.body.v[i])
                /\ res.totalSuccess = Len(res.vessels)

\* the read of a cached vessel failed, and the vessel was fetched and sent
C15_Witness ==
    /\ http.route = "single"
    /\ http.pc = "done"
    /\ http.redisFailed
    /\ HasKey(redis, KeyOf(http.imo))
    /\ "cacheService.setVessel" \in http.effects
    /\ res.status = 200

\* C16: a GET /api/vessel/:imo for an imo that an earlier GET fetched,
\* normalized and stored - the key neither deleted nor expired since, no Redis
\* call of this request failing - is answered from the cache with cached=true
\* and has called neither the vessel source nor the decoder; and a response
\* with cached=true carries what the cache read gave and was not fetched.
C16_CacheHit ==
    (http.route = "single" /\ http.pc = "done") =>
        /\ (http.wasFresh /\ ~http.redisFailed) =>
             /\ res.status = 200
             /\ res.cached = TRUE
             /\ http.effects = {"cacheService.getVessel"}
             /\ res.vessel \in CachedVessels(http.imo)
        /\ (res.status = 200 /\ res.cached) =>
             /\ res.vessel = http.normalizedData
             /\ res.vessel \in CachedVessels(http.imo)
             /\ "cacheService.getVessel" \in http.effects
             /\ "getFullData" \notin http.effects
             /\ "normalizeData" \notin http.effects

\* the second GET for a stored vessel has been answered from the cache
C16_Witness ==
    /\ http.route = "single"
    /\ http.pc = "done"
    /\ http.wasFresh
    /\ ~http.redisFailed
    /\ res.status = 200
    /\ res.cached

(***************************************************************************)
(* fetchWithRetry                                                          *)
(***************************************************************************)
\* the most attempts a caller asks for
MaxRetries == 4

\* the delays the callers pass: the default, and that of getFullData
Delays == {1000, 1200}

\* what one attempt may come to: response.ok with its body, a response that
\* is not ok, or a rejected fetch
Attempts ==
    {[ok |-> TRUE, body |-> "vessel data"], [ok |-> TRUE, body |-> "null"],
     [ok |-> FALSE, error |-> "HTTP error! status: 503"],
     [ok |-> FALSE, error |-> "fetch failed"]}

\* fetchWithRetry(url, options, retries, delay) is called: attempt = 1
CallFetch(retries, delay) ==
    /\ fetcher = NoFetch
    /\ fetcher' = IF 1 <= retries
                  THEN [pc |-> "attempt", retries |-> retries, delay |-> delay,
                        attempt |-> 1, errors |-> <<>>, waits |-> <<>>]
                  ELSE [pc |-> "returned", retries |-> retries, delay |-> delay,
                        attempt |-> 1, errors |-> <<>>, waits |-> <<>>,
                        body |-> "undefined"]
    /\ UNCHANGED <<decoderVars, loaderVars, serverVars, mockVars, chatVars>>

\* the body of the loop up to the wait: the fetch, and the return or the throw
Attempt(outcome) ==
    /\ fetcher.pc = "attempt"
    /\ fetcher' =
         IF outcome.ok
         THEN [field \in DOMAIN fetcher \cup {"body"} |->
                  IF field = "pc" THEN "returned"
                  ELSE IF field = "body" THEN outcome.body
                  ELSE fetcher[field]]
         ELSE IF fetcher.attempt = fetcher.retries
         THEN [field \in DOMAIN fetcher \cup {"thrown"} |->
                  IF field = "pc" THEN "thrown"
                  ELSE IF field = "thrown" THEN outcome.error
                  ELSE IF field = "errors" THEN Append(fetcher.errors, outcome.error)
                  ELSE fetcher[field]]
         ELSE [fetcher EXCEPT !.pc = "wait",
                              !.errors = Append(@, outcome.error)]
    /\ UNCHANGED <<decoderVars, loaderVars, serverVars, mockVars, chatVars>>

\* setTimeout(res, delay * attempt)
Backoff(delay, attempt, waits) == delay * attempt

\* await new Promise((res) => setTimeout(res, delay * attempt)); attempt++
Wait ==
    /\ fetcher.pc = "wait"
    /\ fetcher' = [fetcher EXCEPT
                     !.waits = Append(@, Backoff(fetcher.delay, fetcher.attempt,
                                                 fetcher.waits)),
                     !.attempt = @ + 1,
                     !.pc = "attempt"]
    /\ UNCHANGED <<decoderVars, loaderVars, serverVars, mockVars, chatVars>>

\* the caller has the body or the error
EndFetch ==
    /\ fetcher.pc \in {"returned", "thrown"}
    /\ fetcher' = NoFetch
    /\ UNCHANGED <<decoderVars, loaderVars, serverVars, mockVars, chatVars>>

InitFetch ==
    /\ MockOff
    /\ ChatOff
    /\ ports = SharedDataset
    /\ self = AISPortMatcher(ports)
    /\ request = NoRequest
    /\ response = NoResponse
    /\ stage = "none"
    /\ calls = [c \in Callers |-> IdleCall]
    /\ LoaderOff
    /\ ServerOff
    /\ FetchOff

NextFetch ==
    \/ \E retries \in 0..MaxRetries, delay \in Delays : CallFetch(retries, delay)
    \/ \E outcome \in Attempts : Attempt(outcome)
    \/ Wait
    \/ EndFetch

SpecFetch == InitFetch /\ [][NextFetch]_vars

\* the attempts made so far
AttemptsMade ==
    IF fetcher.pc = "idle" THEN 0
    ELSE IF fetcher.pc = "attempt" THEN fetcher.attempt - 1
    ELSE IF fetcher.retries < 1 THEN 0
    ELSE fetcher.attempt

\* the waits grow exponentially: each wait is the wait before it times one
\* factor greater than 1
GrowsExponentially(waits) ==
    /\ \A i \in 2..Len(waits) : waits[i] > waits[i - 1]
    /\ \A i \in 3..Len(waits) :
          waits[i] * waits[i - 2] = waits[i - 1] * waits[i - 1]

\* C17 (as stated): fetchWithRetry makes at most `retries` attempts, returns
\* the body of the first attempt whose response is ok and attempts nothing
\* more, waits between failed attempts with an exponentially growing backoff,
\* and throws the last attempt's error when that attempt fails.
C17_Original ==
    fetcher.pc # "idle" =>
        /\ AttemptsMade <= fetcher.retries
        /\ fetcher.pc = "returned" =>
             /\ Len(fetcher.errors) = AttemptsMade - 1 \/ fetcher.retries < 1
             /\ Len(fetcher.waits) = Len(fetcher.errors)
        /\ fetcher.pc = "thrown" =>
             /\ AttemptsMade = fetcher.retries
             /\ Len(fetcher.errors) = fetcher.retries
             /\ fetcher.thrown = fetcher.errors[fetcher.retries]
        /\ GrowsExponentially(fetcher.waits)

(***************************************************************************)
(* The fuzzy stages and the country extraction                             *)
(***************************************************************************)
\* destinations with a country token, with two country tokens, with none,
\* and misspelt port names
FuzzyTexts ==
    { <<"H","U"," ","B","R","I","T","A","I","N">>,
      <<"H","U","L","L",","," ","B","R","I","T","A","I","N">>,
      <<"H","U","L","L","E","R"," ","B","R","I","T","A","I","N">>,
      <<"X","Y","Z"," ","B","R","I","T","A","I","N">>,
      <<"B","R","I","T","A","I","N">>,
      <<"C","A","N","A","D","A"," ","H","U","L","L"," ","B","R","I","T","A","I","N">>,
      <<"X","Y","Z",","," ","H","U","L","L","L">>,
      <<"H","U">>,
      <<"H","U","L">>,
      <<"H","U","M","B","E">> }

FuzzyRequests ==
    {[form |-> "plain", origin |-> <<>>, separator |-> <<>>, leg |-> t,
      noise |-> <<>>, destination |-> Str(t)] : t \in FuzzyTexts}

NextFuzzy ==
    \/ \E req \in FuzzyRequests : Decode(req)
    \/ Respond

SpecFuzzy == Init /\ [][NextFuzzy]_vars

\* the rows of the dataset that have the best score for the name among the
\* rows of the set
BestOf(name, rows) ==
    {i \in rows : \A j \in rows :
        Geq(Similarity(name, ports[i]), Similarity(name, ports[j]))}

\* the earliest of them in dataset order
Earliest(rows) == CHOOSE i \in rows : \A j \in rows : i <= j

\* the rows of the country's bucket
Bucket(country) ==
    {i \in 1..Len(ports) :
        ports[i].countryCode = Get(self.country_name_index, country)}

\* the rows that reach the threshold for the name
Reaching(name, rows, threshold) ==
    {i \in rows : Geq(Similarity(name, ports[i]), threshold)}

\* the tokens of a text, as the country extraction splits it
Tokens(cleaned) == SplitRuns(cleaned, CountrySeparators)

IsCountry(token) == HasKey(self.country_name_index, Upper(token))

\* the request went past the exact stages A and B
PastExact == Piped /\ stage \in {"C", "D", "E", "F"}

\* C18: when a country was resolved and the exact stages found nothing,
\* Stage C answers exactly when a row of the country's bucket scores at least
\* 0.65 for the remaining text, and then with the earliest row, in dataset
\* order, among the rows of the bucket with the highest score; otherwise
\* Stage D is run on the full cleaned text.
C18_StageC ==
    PastExact =>
        LET cleaned   == Clean(text)
            extracted == _extract_country(self, cleaned)
            bucket    == Bucket(extracted[1])
        IN  extracted[1] # None =>
              /\ stage = "C" <=> Reaching(extracted[2], bucket, Frac(65, 100)) # {}
              /\ stage = "C" =>
                   /\ SameLocation(response,
                                   ports[Earliest(BestOf(extracted[2], bucket))])
              /\ stage # "C" =>
                   /\ stage = "D" <=>
                        Reaching(cleaned, 1..Len(ports), Frac(75, 100)) # {}
                   /\ stage = "D" =>
                        SameLocation(response,
                                     ports[Earliest(BestOf(cleaned, 1..Len(ports)))])

\* Stage C answered with the earlier of two rows of the bucket with equal scores
C18_Witness ==
    /\ Piped
    /\ stage = "C"
    /\ \E i, j \in Bucket(_extract_country(self, Clean(text))[1]) :
          /\ i < j
          /\ {i, j} \subseteq BestOf(_extract_country(self, Clean(text))[2],
                                     Bucket(_extract_country(self, Clean(text))[1]))
          /\ SameLocation(response, ports[i])

\* C19: when the stages A, B and C found nothing, Stage D answers exactly
\* when a row of the dataset scores at least 0.75 for the cleaned text, and
\* then with the earliest row, in dataset order, among all rows with the
\* highest score, whatever their port names.
C19_StageD ==
    (Piped /\ stage \in {"D", "E", "F"}) =>
        LET cleaned == Clean(text)
            all     == 1..Len(ports)
        IN  /\ stage = "D" <=> Reaching(cleaned, all, Frac(75, 100)) # {}
            /\ stage = "D" =>
                 /\ SameLocation(response, ports[Earliest(BestOf(cleaned, all))])
                 /\ \A j \in all :
                       Geq(Similarity(cleaned, ports[Earliest(BestOf(cleaned, all))]),
                           Similarity(cleaned, ports[j]))

\* Stage D answered with the earlier of two rows with equal scores and
\* different port names
C19_Witness ==
    /\ Piped
    /\ stage = "D"
    /\ \E i, j \in BestOf(Clean(text), 1..Len(ports)) :
          /\ i < j
          /\ Upper(ports[i].port) # Upper(ports[j].port)
          /\ SameLocation(response, ports[i])

\* C20: the country extraction tries the last token, then the first: with the
\* last token a country it returns it with all other tokens, the first
\* included; with only the first a country it returns it with the tokens after
\* it; with neither it returns no country and the text as it was; at most one
\* token is taken away.
C20_ResolveCountry ==
    Piped =>
        LET cleaned   == Clean(text)
            tokens    == Tokens(cleaned)
            last      == tokens[Len(tokens)]
            extracted == _extract_country(self, cleaned)
        IN  /\ IsCountry(last) =>
                 /\ extracted[1] = Upper(last)
                 /\ extracted[2] = JoinSpace(Slice(tokens, 1, Len(tokens) - 1))
            /\ (~IsCountry(last) /\ IsCountry(tokens[1])) =>
                 /\ extracted[1] = Upper(tokens[1])
                 /\ extracted[2] = JoinSpace(Tail(tokens))
            /\ (~IsCountry(last) /\ ~IsCountry(tokens[1])) =>
                 /\ extracted[1] = None
                 /\ extracted[2] = cleaned
            /\ extracted[1] # None =>
                 /\ Len(tokens) = 1 => extracted[2] = <<>>
                 /\ Len(tokens) > 1 => Len(Tokens(extracted[2])) = Len(tokens) - 1

\* the first and the last token are both countries: the last was taken and the
\* first stayed in the remaining text
C20_Witness ==
    /\ Piped
    /\ Len(Tokens(Clean(text))) > 2
    /\ IsCountry(Tokens(Clean(text))[1])
    /\ IsCountry(Tokens(Clean(text))[Len(Tokens(Clean(text)))])
    /\ _extract_country(self, Clean(text))[1]
          = Upper(Tokens(Clean(text))[Len(Tokens(Clean(text)))])
    /\ Tokens(_extract_country(self, Clean(text))[2])[1] = Tokens(Clean(text))[1]

(***************************************************************************)
(* The cleaning of the destination: routes and noise                       *)
(***************************************************************************)
\* destinations that end with a separator, that hold several separators,
\* that hold TO inside a word, and destinations with noise words
CleanTexts ==
    { <<"B","E","Z","E","E",">","G","B","H","U","L",">">>,
      <<"B","E","Z","E","E",">",">","G","B","H","U","L">>,
      <<"B","E","Z","E","E","-","-",">","H","U","L","L",">",">","G","B","H","U","L">>,
      <<"B","E","Z","E","E",">",">","H","U","L","L","-",">","G","B","H","U","L">>,
      <<"H","U","L","L"," ","T","O">>,
      <<"T","O","G","O"," ","t","o"," ","H","U","L","L">>,
      <<"T","O","G","O"," ","H","U","L","L">>,
      <<"H","U","L","L">>,
      <<"H","U","L","L"," ","N","/","A">>,
      <<"A","N","C","H","O","R","A","G","E"," ","A","N","C","H">>,
      <<"O","P","E","N","S","H","A","W"," ","o","p","e","n">>,
      <<"H","U","L","L"," ","F","O","R"," ","O","R","D","E","R">>,
      <<"H","U","L","L"," ","F","O","R"," ","O","R","D","E","R","S">>,
      <<"S","T",".","L","O"," ","T","B","A">>,
      <<"H","u">>,
      <<"H","u","m","b","e">>,
      <<"F","O","R"," ","T","B","A"," ","O","R","D","E","R">>,
      <<"f","o","r"," "," ","o","r","d","e","r","s"," ","H","U","L","L">>,
      <<"I","N","-","O","R","D","E","R"," ","H","U","L","L">>,
      <<"A","N","(","X",")","C","H"," ","H","U","L","L">>,
      <<"(","(","T","B","A",")","O","P","L",")"," ","H","U","L","L">>,
      <<" ","h","u","l","l","/","n","/","a"," ">>,
      <<"S","T",".","L","O"," ","-"," ","_">> }

CleanRequests ==
    {[form |-> "plain", origin |-> <<>>, separator |-> <<>>, leg |-> t,
      noise |-> <<>>, destination |-> Str(t)] : t \in CleanTexts}

NextClean ==
    \/ \E req \in CleanRequests : Decode(req)
    \/ Respond

SpecClean == Init /\ [][NextClean]_vars

\* the separator occurs in t at position i: an arrow as it is, TO as a word
SeparatorAt(t, sep, i) ==
    IF sep = TO THEN WordAt(Upper(t), TO, i) ELSE MatchAt(t, sep, i)

\* the segments of t between all occurrences of the separator, from i on
RECURSIVE Segments(_, _, _)
Segments(t, sep, i) ==
    IF \E j \in i..Len(t) : SeparatorAt(t, sep, j)
    THEN LET j == CHOOSE j \in i..Len(t) :
                     /\ SeparatorAt(t, sep, j)
                     /\ \A k \in i..(j - 1) : ~SeparatorAt(t, sep, k)
         IN  <<Slice(t, i, j - 1)>> \o Segments(t, sep, j + Len(sep))
    ELSE <<Slice(t, i, Len(t))>>

\* the separators in the order of their priority, TO last
Separators == arrows \o <<TO>>

Occurs(t, sep) == \E i \in 1..Len(t) : SeparatorAt(t, sep, i)

IsNonEmpty(segment) == segment # <<>>

\* C21 (as stated): the final leg is the text itself when no separator
\* occurs in it; else the text is split on all occurrences of the first
\* separator, by priority, that occurs, and the final leg is the last
\* non-empty segment, trimmed - also when the text ends with the separator.
C21_Original ==
    Piped =>
        IF \A p \in 1..Len(Separators) : ~Occurs(text, Separators[p])
        THEN _extract_destination_from_route(text) = text
        ELSE LET p == CHOOSE p \in 1..Len(Separators) :
                         /\ Occurs(text, Separators[p])
                         /\ \A q \in 1..(p - 1) : ~Occurs(text, Separators[q])
                 filled == SelectSeq(Segments(text, Separators[p], 1), IsNonEmpty)
             IN  filled # <<>> =>
                   _extract_destination_from_route(text) = Strip(filled[Len(filled)])

\* the word of t that starts at i and ends at j
IsRun(t, i, j) ==
    /\ 1 <= i /\ i <= j /\ j <= Len(t)
    /\ \A k \in i..j : IsWordChar(t[k])
    /\ (i = 1 \/ ~IsWordChar(t[i - 1]))
    /\ (j = Len(t) \/ ~IsWordChar(t[j + 1]))

Runs(t) == {r \in (1..Len(t)) \X (1..Len(t)) : IsRun(t, r[1], r[2])}

\* position k of t lies in a whole-word occurrence of a noise token
InNoise(t, k) ==
    \E n \in 1..Len(NOISE_WORDS) : \E i \in 1..Len(t) :
        /\ WordAt(t, NOISE_WORDS[n], i)
        /\ k \in i..(i + Len(NOISE_WORDS[n]) - 1)

\* the words of t outside every whole-word occurrence of a noise token
KeptRuns(t) == {r \in Runs(t) : \A k \in r[1]..r[2] : ~InNoise(t, k)}

WordsOf(t, runs) == {Slice(t, r[1], r[2]) : r \in runs}

\* C22 (as stated): noise tokens are removed as whole words only.  A word of
\* the input that merely contains a noise token as a proper substring is a
\* word of the output, and nothing of a whole-word occurrence of a noise
\* token (N/A, FOR ORDER, FOR ORDERS included) is left in the output: every
\* word of the output is a word of the input outside those occurrences.
C22_Original ==
    Piped =>
        LET upper  == Upper(text)
            output == _remove_noise(text)
        IN  /\ \A r \in KeptRuns(upper) :
                  (\E n \in 1..Len(NOISE_WORDS) :
                       Contains(Slice(upper, r[1], r[2]), NOISE_WORDS[n]))
                  => Slice(upper, r[1], r[2]) \in WordsOf(output, Runs(output))
            /\ WordsOf(output, Runs(output)) \subseteq WordsOf(upper, KeptRuns(upper))

\* two similarities are the same number
Same(x, y) == x.n * y.d = y.n * x.d

\* the ports the cleaned text is scored against
Candidates == {ports[p] : p \in 1..Len(ports)}

\* C23: the score of the cleaned text against a port is within [0,1], is 1
\* when the upper-cased strings are identical, is the larger of the ratio
\* and 0.85 when the query is a substring of the candidate and the ratio
\* otherwise; the score is never below the ratio.
C23_Score ==
    Piped =>
        \A port \in Candidates :
            LET query     == Upper(Clean(text))
                candidate == Upper(port.port)
                plain     == ratio(query, candidate)
                score     == Similarity(Clean(text), port)
            IN  /\ 0 <= score.n /\ score.n <= score.d
                /\ query = candidate => Same(score, Frac(1, 1))
                /\ Contains(candidate, query) =>
                      IF 100 * plain.n >= 85 * plain.d
                      THEN Same(score, plain)
                      ELSE Same(score, Frac(85, 100))
                /\ ~Contains(candidate, query) => Same(score, plain)
                /\ score.n * plain.d >= plain.n * score.d

\* a query inside a longer candidate whose ratio is below 0.85 is scored 0.85
C23_Witness ==
    /\ Piped
    /\ \E port \in Candidates :
          /\ Contains(Upper(port.port), Upper(Clean(text)))
          /\ 100 * ratio(Upper(Clean(text)), Upper(port.port)).n
                 < 85 * ratio(Upper(Clean(text)), Upper(port.port)).d
          /\ Same(Similarity(Clean(text), port), Frac(85, 100))

\* t holds a whole-word occurrence of a noise token
HasNoise(t) ==
    \E n \in 1..Len(NOISE_WORDS) : \E i \in 1..Len(t) : WordAt(t, NOISE_WORDS[n], i)

ListedUnder(index, key, port) ==
    /\ HasKey(index, key)
    /\ \E i \in 1..Len(Get(index, key)) : Get(index, key)[i] = port

\* the port is listed in the indexes by name, by country and by port code
Listed(port) ==
    /\ ListedUnder(self.port_name_index, Upper(port.port), port)
    /\ ListedUnder(self.country_index, port.countryCode, port)
    /\ ListedUnder(self.port_code_index, port.portCode, port)

\* the port is the one the LOCODE index holds for its LOCODE
HeldByCode(port) ==
    /\ HasKey(self.locode_index, port.locode)
    /\ Get(self.locode_index, port.locode) = port

\* C27 (as stated): the four indexes agree, also for a dataset with a
\* LOCODE that occurs twice: a port is listed by name, by country and by
\* port code exactly if it is the port the LOCODE index holds for its
\* LOCODE, and a matched response is always a port of the LOCODE index.
C27_Original ==
    /\ \A port \in Candidates : Listed(port) <=> HeldByCode(port)
    /\ (Piped /\ response.matched) =>
          \E port \in Candidates : HeldByCode(port) /\ SameLocation(response, port)

(***************************************************************************)
(* What the server writes to the cache                                     *)
(***************************************************************************)
\* C24: every entry of the cache is the normalized data of a vessel whose
\* fetch succeeded; the result of a fetch that carries an error field is
\* never stored, by neither route.
C24_StoredVessels ==
    \A k \in 1..Len(redis.keys) :
        LET entry == JSON_parse(redis.val[k])
        IN  /\ "error" \notin DOMAIN entry
            /\ \E rawData \in VesselFeed :
                  /\ redis.keys[k] = KeyOf(JsNumber(rawData.imo))
                  /\ \E destData \in normalizeDestination(rawData.ais_destination) :
                        /\ ~IsRejection(destData)
                        /\ entry = JSON_parse(JSON_stringify(normalizeData(rawData, destData)))

\* a batch with one vessel fetched and stored and one vessel failed
C24_Witness ==
    /\ http.route = "batch"
    /\ res.status = 200
    /\ http.failed # <<>>
    /\ \E i \in 1..Len(http.fetched) :
          HasKey(redis, KeyOf(JsNumber(http.fetched[i].imo)))

(***************************************************************************)
(* The mock vessel source: src/backend/utils/apiData.js                    *)
(***************************************************************************)
\* the records of mock-vessels.json
MockVessels ==
    << [imo |-> 91, name |-> <<"e","V","E","R">>,
        type |-> <<"O","i","l"," ","T","a","n","k","e","r">>,
        ais_destination |-> <<"h","u","l","l"," ">>, latitude |-> 10],
       [imo |-> 93, name |-> <<"m","v"," ","T","E","R","N">>,
        type |-> <<>>,
        ais_destination |-> <<"X","Y","Z">>, latitude |-> 20] >>

\* mockDatabase after the load: the file's records, or [] when it failed
MockFiles == {<<>>, <<MockVessels[1]>>, <<MockVessels[2]>>, MockVessels}

\* the imo arguments of the calls
MockImos ==
    {JsNumber(91), JsString(<<"9","1">>), JsString(<<"9","1","a">>),
     JsNumber(93), JsString(<<"a","b","c">>)}

\* the most objects the callers hold at a time
MaxObjects == 2

RECURSIVE LeadingDigits(_)
LeadingDigits(chars) ==
    IF chars # <<>> /\ chars[1] \in Digits
    THEN <<chars[1]>> \o LeadingDigits(Tail(chars))
    ELSE <<>>

RECURSIVE DigitsToNumber(_)
DigitsToNumber(digits) ==
    IF digits = <<>> THEN 0
    ELSE 10 * DigitsToNumber(Slice(digits, 1, Len(digits) - 1))
         + (CHOOSE d \in 0..9 : DigitChars[d + 1] = digits[Len(digits)])

\* parseInt(imo): the number of the digits the text starts with, after its
\* leading blanks; NaN when there is none
parseInt(value) ==
    LET digits == LeadingDigits(LStrip(TemplateString(value)))
    IN  IF digits = <<>> THEN [nan |-> TRUE, v |-> 0]
        ELSE [nan |-> FALSE, v |-> DigitsToNumber(digits)]

\* mockDatabase.find((v) => v.imo === imoNumber): the index, 0 for undefined
find(database, imoNumber) ==
    IF imoNumber.nan \/ \A i \in 1..Len(database) : database[i].imo # imoNumber.v
    THEN 0
    ELSE CHOOSE i \in 1..Len(database) :
            /\ database[i].imo = imoNumber.v
            /\ \A h \in 1..(i - 1) : database[h].imo # imoNumber.v

\* getFullData returns the stored object itself
mock_getFullDataShared(database, imo) ==
    LET vessel == find(database, parseInt(imo))
    IN  IF vessel = 0
        THEN [ref |-> 0, data |-> [imo |-> imo, error |-> "No data"]]
        ELSE [ref |-> vessel, data |-> database[vessel]]

\* getFullData(imo) of the mock source: `{imo, error: "No data"}`, or a deep
\* copy of the record, JSON.parse(JSON.stringify(vessel)).  ref is the
\* record of mockDatabase the returned object is, 0 for an object of its own
mock_getFullData(database, imo) ==
    LET vessel == find(database, parseInt(imo))
    IN  IF vessel = 0
        THEN [ref |-> 0, data |-> [imo |-> imo, error |-> "No data"]]
        ELSE [ref |-> 0, data |-> database[vessel]]

\* a || "Unknown" for a text
OrUnknown(chars) == IF chars = <<>> THEN Unknown ELSE chars

\* getVesselData(imo) of the mock source: a new object with the key fields
mock_getVesselData(database, imo) ==
    LET data == mock_getFullData(database, imo).data
    IN  IF HasError(data)
        THEN [ref |-> 0, data |-> [imo |-> imo, error |-> data.error]]
        ELSE [ref |-> 0,
              data |-> [imo |-> data.imo, name |-> OrUnknown(data.name),
                        type |-> OrUnknown(data.type),
                        ais_destination |-> OrUnknown(data.ais_destination),
                        latitude |-> data.latitude]]

\* the object a caller holds, as it is now
Deref(object) ==
    IF object.ref = 0 THEN object.data ELSE mockDatabase[object.ref]

\* a caller holds what the call returned
Hold(call, imo, returned) ==
    /\ Len(objects) < MaxObjects
    /\ objects' = Append(objects, [call |-> call, imo |-> imo,
                                   ref |-> returned.ref, data |-> returned.data,
                                   raw |-> returned.data, normalized |-> FALSE])
    /\ UNCHANGED mockDatabase

\* const rawData = await getFullData(imo)
CallGetFullData(imo) ==
    /\ Hold("getFullData", imo, mock_getFullData(mockDatabase, imo))
    /\ UNCHANGED <<decoderVars, loaderVars, serverVars, fetchVars, chatVars>>

\* await getVesselData(imo)
CallGetVesselData(imo) ==
    /\ Hold("getVesselData", imo, mock_getVesselData(mockDatabase, imo))
    /\ UNCHANGED <<decoderVars, loaderVars, serverVars, fetchVars, chatVars>>

\* await normalizeData(rawData): const vesselData = rawData, and the fields
\* of that object are assigned; name and type only, when the promise of
\* normalizeDestination is rejected
CallNormalizeData ==
    /\ \E k \in 1..Len(objects) :
         /\ ~objects[k].normalized
         /\ HasNoError(Deref(objects[k]))
         /\ \E destData \in normalizeDestination(Deref(objects[k]).ais_destination) :
              \E vesselData \in {IF IsRejection(destData)
                                  THEN [Deref(objects[k]) EXCEPT
                                          !.name = normalizeName(@),
                                          !.type = normalizeShipType(@)]
                                  ELSE normalizeData(Deref(objects[k]), destData)} :
                 IF objects[k].ref = 0
                 THEN /\ objects' = [objects EXCEPT ![k].data = vesselData,
                                                    ![k].normalized = TRUE]
                      /\ UNCHANGED mockDatabase
                 ELSE /\ objects' = [objects EXCEPT ![k].normalized = TRUE]
                      /\ mockDatabase' =
                            [mockDatabase EXCEPT ![objects[k].ref] = vesselData]
    /\ UNCHANGED <<decoderVars, loaderVars, serverVars, fetchVars, chatVars>>

\* the caller is done with the object it got first
Release ==
    /\ objects # <<>>
    /\ objects' = Tail(objects)
    /\ UNCHANGED mockDatabase
    /\ UNCHANGED <<decoderVars, loaderVars, serverVars, fetchVars, chatVars>>

InitMock ==
    /\ ports = SharedDataset
    /\ self = AISPortMatcher(ports)
    /\ request = NoRequest
    /\ response = NoResponse
    /\ stage = "none"
    /\ calls = [c \in Callers |-> IdleCall]
    /\ LoaderOff
    /\ ServerOff
    /\ FetchOff
    /\ ChatOff
    /\ mockDatabase \in MockFiles
    /\ objects = <<>>

NextMock ==
    \/ \E imo \in MockImos : CallGetFullData(imo)
    \/ \E imo \in MockImos : CallGetVesselData(imo)
    \/ CallNormalizeData
    \/ Release

SpecMock == InitMock /\ [][NextMock]_vars

\* the objects getFullData returned for one imo came with the same raw data
SameLookups ==
    \A j, k \in 1..Len(objects) :
        (/\ objects[j].call = "getFullData"
         /\ objects[k].call = "getFullData"
         /\ objects[j].imo = objects[k].imo)
        => objects[j].raw = objects[k].raw

\* C25: no call of getFullData, getVesselData or normalizeData changes a
\* record of mockDatabase, and the lookups of one IMO return the same raw
\* data, before and after normalizeData has overwritten the fields of the
\* objects returned.
C25_NeverModified == [][mockDatabase' = mockDatabase /\ SameLookups']_vars

\* normalizeData has overwritten an object getFullData returned for a vessel
\* of the database, and a second lookup of the vessel is held
C25_Witness ==
    \E j, k \in 1..Len(objects) :
        /\ j # k
        /\ objects[j].call = "getFullData" /\ objects[k].call = "getFullData"
        /\ objects[j].imo = objects[k].imo
        /\ objects[j].normalized
        /\ objects[j].data # objects[j].raw
        /\ ~objects[k].normalized

(***************************************************************************)
(* The counts of a batch response                                          *)
(***************************************************************************)
\* C28 (as stated): in every 200 response of POST /api/vessels/batch the
\* successes and the failures add up to the vessels requested and the
\* cached and the fetched vessels add up to the successes, for every list
\* of IMOs, also with an IMO repeated, and every split between cached and
\* uncached vessels.
C28_Original ==
    (http.route = "batch" /\ res.status = 200) =>
        /\ res.totalSuccess + res.totalFailed = res.totalRequested
        /\ res.cachedCount + res.fetchedCount = res.totalSuccess

(***************************************************************************)
(* The failures of the decoder call                                        *)
(***************************************************************************)
\* the vessels fetched without an error that the request is about to normalize
ToNormalize ==
    IF http.pc # "normalize" THEN {}
    ELSE IF http.route = "single" THEN {http.rawData}
    ELSE {http.rawData[i] : i \in {h \in 1..Len(http.rawData) : HasNoError(http.rawData[h])}}

\* C29 (as stated): normalizeDestination never rejects. Whatever the
\* decoder call does - a failed call, a status that is not ok, an ok
\* response whose body is no JSON - it resolves to an object, normalizeData
\* sets ais_destination to "Unknown" when that object is no match, and no
\* single or batch request is answered with status 500.
C29_Original ==
    /\ \A rawData \in ToNormalize :
          \A destData \in normalizeDestination(rawData.ais_destination) :
              /\ ~IsRejection(destData)
              /\ ~destData.matched =>
                    normalizeData(rawData, destData).ais_destination = JsString(Unknown)
    /\ res.status # 500

(***************************************************************************)
(* The Chatbot component: src/frontend/src/components/Chatbot.jsx          *)
(***************************************************************************)
\* what the user may have typed into the input
TypedTexts == {<<>>, <<" ">>, <<"h","i"," ">>}

\* the most messages of a chat, and the most initChatbot requests in flight
MaxMessages == 3

MaxInits == 2

\* what a request to the backend may come to
Replies == {"success", "no success", "rejected"}

greeting == <<"H","e","l","l","o">>

aiResponse == <<"O","k">>

\* toggleChat, and the effect of [isOpen]: a panel that opens without a
\* message calls initializeChat, which sets isInitializing and sends
\* initChatbot
toggleChat ==
    /\ chatbot.initChatbot < MaxInits
    /\ chatbot' =
         IF ~chatbot.isOpen /\ Len(chatbot.messages) = 0
         THEN [chatbot EXCEPT !.isOpen = TRUE, !.error = FALSE,
                              !.isInitializing = TRUE,
                              !.initChatbot = @ + 1]
         ELSE [chatbot EXCEPT !.isOpen = ~@, !.error = FALSE]
    /\ UNCHANGED <<decoderVars, loaderVars, serverVars, fetchVars, mockVars>>

\* initializeChat goes on after `await apiService.initChatbot()`
initializeChat(reply) ==
    /\ chatbot.initChatbot > 0
    /\ chatbot' =
         [chatbot EXCEPT
            !.messages = IF reply = "success"
                         THEN <<[text |-> greeting, sender |-> "bot"]>>
                         ELSE @,
            !.error = IF reply = "rejected" THEN TRUE ELSE @,
            !.isInitializing = FALSE,
            !.initChatbot = @ - 1]
    /\ UNCHANGED <<decoderVars, loaderVars, serverVars, fetchVars, mockVars>>

\* onChange of the input, which is disabled while isLoading or isInitializing
setInputMessage(value) ==
    /\ chatbot.isOpen
    /\ ~chatbot.isLoading /\ ~chatbot.isInitializing
    /\ chatbot.inputMessage # value
    /\ chatbot' = [chatbot EXCEPT !.inputMessage = value]
    /\ UNCHANGED <<decoderVars, loaderVars, serverVars, fetchVars, mockVars>>

\* handleSendMessage up to `await apiService.sendChatMessage(trimmedMessage)`;
\* the form is submitted from the enabled input
handleSendMessage ==
    /\ chatbot.isOpen
    /\ ~chatbot.isInitializing
    /\ Len(chatbot.messages) < MaxMessages
    /\ \E trimmedMessage \in {Strip(chatbot.inputMessage)} :
         chatbot' =
           IF trimmedMessage = <<>> \/ chatbot.isLoading
           THEN chatbot
           ELSE [chatbot EXCEPT
                   !.messages = Append(@, [text |-> trimmedMessage, sender |-> "user"]),
                   !.inputMessage = <<>>,
                   !.isLoading = TRUE,
                   !.error = FALSE,
                   !.sendChatMessage = Append(@, trimmedMessage)]
    /\ UNCHANGED <<decoderVars, loaderVars, serverVars, fetchVars, mockVars>>

\* handleSendMessage goes on after the await
ReceiveResponse(reply) ==
    /\ chatbot.sendChatMessage # <<>>
    /\ chatbot' =
         [chatbot EXCEPT
            !.messages = IF reply = "success"
                         THEN Append(@, [text |-> aiResponse, sender |-> "bot"])
                         ELSE @,
            !.error = IF reply = "rejected" THEN TRUE ELSE @,
            !.isLoading = FALSE,
            !.sendChatMessage = Tail(@)]
    /\ UNCHANGED <<decoderVars, loaderVars, serverVars, fetchVars, mockVars>>

InitChat ==
    /\ ports = SharedDataset
    /\ self = AISPortMatcher(ports)
    /\ request = NoRequest
    /\ response = NoResponse
    /\ stage = "none"
    /\ calls = [c \in Callers |-> IdleCall]
    /\ LoaderOff
    /\ ServerOff
    /\ FetchOff
    /\ MockOff
    /\ chatbot = NoChat

NextChat ==
    \/ toggleChat
    \/ \E reply \in Replies : initializeChat(reply)
    \/ \E value \in TypedTexts : setInputMessage(value)
    \/ handleSendMessage
    \/ \E reply \in Replies : ReceiveResponse(reply)

SpecChat == InitChat /\ [][NextChat]_vars

\* the list starts with the messages of the list before
GrowsFrom(before, after) ==
    /\ Len(before) <= Len(after)
    /\ \A i \in 1..Len(before) : after[i] = before[i]

\* C30 (as stated): the message list only grows by appending - no message
\* shown is removed or replaced, whatever the order of the openings and
\* closings of the panel, the completions of initializeChat and the calls
\* of handleSendMessage - and at most one sendChatMessage request is in
\* flight at any time.
C30_Original ==
    [][/\ GrowsFrom(chatbot.messages, chatbot'.messages)
       /\ Len(chatbot'.sendChatMessage) <= 1]_vars

====
